---- MODULE Spec2Model ----
(***************************************************************************)
(* Zonal statistics engine (trefoil/analysis/summary.py) and the zones /   *)
(* zonal_stats commands (trefoil/cli/zones.py).                            *)
(*                                                                         *)
(* Arrays are records [shape, data, hasmask, mask]: data and mask are the  *)
(* row-major flattening of the array, hasmask = FALSE is numpy's nomask.   *)
(* A statistic value is a record [masked, num, den]: the rational num/den, *)
(* or numpy.ma.masked when masked = TRUE.  For "std" the rational is the   *)
(* population variance, of which std is the square root.                   *)
(***************************************************************************)
EXTENDS Integers, Sequences, FiniteSets, TLC

\* ---------------------------------------------------------------- bounds
MaxVal == 2          \* pixel data values are 1..MaxVal
MaxZones == 2        \* zone_values has at most MaxZones entries

\* pixel grids of the engine's inputs
GridShape == <<1, 2>>
TimeSteps == {1, 2}
ZoneValueDomain == {10, 20}

\* ------------------------------------------------------- array helpers
RECURSIVE Prod(_)
Prod(s) == IF s = <<>> THEN 1 ELSE Head(s) * Prod(Tail(s))

Size(shape) == Prod(shape)

Max2(a, b) == IF a >= b THEN a ELSE b

\* shape s padded on the left with 1s to n dimensions (numpy broadcasting)
PadShape(s, n) == [i \in 1..n |-> IF i <= n - Len(s) THEN 1 ELSE s[i - (n - Len(s))]]

Broadcastable(a, b) ==
    LET n == Max2(Len(a), Len(b))
        pa == PadShape(a, n)
        pb == PadShape(b, n)
    IN  \A i \in 1..n : pa[i] = pb[i] \/ pa[i] = 1 \/ pb[i] = 1

BroadcastShape(a, b) ==
    LET n == Max2(Len(a), Len(b))
        pa == PadShape(a, n)
        pb == PadShape(b, n)
    IN  [i \in 1..n |-> Max2(pa[i], pb[i])]

\* stride of dimension i of a row-major array of the given shape
Stride(shape, i) == Prod(SubSeq(shape, i + 1, Len(shape)))

RECURSIVE SumTo(_, _)
SumTo(f, n) == IF n = 0 THEN 0 ELSE f[n] + SumTo(f, n - 1)

\* the flat data of an array of shape s broadcast to the shape r
BroadcastTo(flat, s, r) ==
    LET n == Len(r)
        p == PadShape(s, n)
        src(k) == SumTo([i \in 1..n |->
                     IF p[i] = 1 THEN 0
                     ELSE (((k - 1) \div Stride(r, i)) % r[i]) * Stride(p, i)], n)
    IN  [k \in 1..Size(r) |-> flat[1 + src(k)]]

\* --------------------------------------------------------- reductions
RECURSIVE SumOver(_, _)
SumOver(f, S) ==
    IF S = {} THEN 0
    ELSE LET x == CHOOSE y \in S : TRUE IN f[x] + SumOver(f, S \ {x})

MinOver(f, S) == CHOOSE m \in {f[i] : i \in S} : \A i \in S : m <= f[i]
MaxOver(f, S) == CHOOSE m \in {f[i] : i \in S} : \A i \in S : m >= f[i]

Scalar(n) == [masked |-> FALSE, num |-> n, den |-> 1]
Ratio(n, d) == [masked |-> FALSE, num |-> n, den |-> d]
MaskedConstant == [masked |-> TRUE, num |-> 0, den |-> 1]

\* names numpy.ma.MaskedArray has a reduction method for
ArrayMethods == {"mean", "min", "max", "std", "sum"}

\* getattr(masked, statistic)() over the cells idxs of a masked array:
\* the reduction over the unmasked cells, numpy.ma.masked when there is none
MaskedReduce(statistic, data, mask, idxs) ==
    LET U == {i \in idxs : ~mask[i]}
        n == Cardinality(U)
        s == SumOver(data, U)
        sq == SumOver([i \in DOMAIN data |-> data[i] * data[i]], U)
    IN  IF U = {} THEN MaskedConstant
        ELSE CASE statistic = "sum" -> Scalar(s)
               [] statistic = "min" -> Scalar(MinOver(data, U))
               [] statistic = "max" -> Scalar(MaxOver(data, U))
               [] statistic = "mean" -> Ratio(s, n)
               [] statistic = "std" -> Ratio(n * sq - s * s, n * n)

\* mutant of CountUnmasked: every cell is counted, masked or not
CountEveryCell(mask, idxs) == Scalar(Cardinality(idxs))

\* (masked.mask == False).sum() over the cells idxs: a plain integer count
CountUnmasked(mask, idxs) == Scalar(Cardinality({i \in idxs : ~mask[i]}))


\* ------------------------------------------- calculate_zonal_statistics
VALID_ZONAL_STATISTICS == {"mean", "min", "max", "std", "sum", "count"}

EmptyDict == <<>>
DictSet(d, k, v) == [x \in (DOMAIN d) \cup {k} |-> IF x = k THEN v ELSE d[x]]

RECURSIVE SeqToSet(_)
SeqToSet(s) == IF s = <<>> THEN {} ELSE {Head(s)} \cup SeqToSet(Tail(s))

\* mutant of UnsupportedStatistics: only the first name is checked
UnsupportedFirstName(stats) ==
    IF stats = <<>> THEN {} ELSE {stats[1]} \ VALID_ZONAL_STATISTICS

\* set(statistics).difference(VALID_ZONAL_STATISTICS)
UnsupportedStatistics(stats) == SeqToSet(stats) \ VALID_ZONAL_STATISTICS

\* len(values.shape) in (2, 3)
DimsSupported(values) == Len(values.shape) \in {2, 3}

\* numpy.ma.masked_array(values) when values has no mask attribute
AsMasked(values) ==
    IF values.kind = "ndarray"
    THEN [kind |-> "ma", shape |-> values.shape, data |-> values.data,
          hasmask |-> FALSE, mask |-> <<>>]
    ELSE values

\* values.reshape(shape[0], shape[1] * shape[2]) of a 3D array
FlattenSpatial(values) ==
    IF Len(values.shape) = 3
    THEN [values EXCEPT !.shape = <<values.shape[1], values.shape[2] * values.shape[3]>>]
    ELSE values

\* zones.flat of a 3D call
FlatZones(zones, values) ==
    IF Len(values.shape) = 3
    THEN [zones EXCEPT !.shape = <<Size(zones.shape)>>]
    ELSE zones

\* axis of the reductions: 0 stands for None
ReduceAxis(values) == IF Len(values.shape) = 3 THEN 1 ELSE 0

\* mutant of ZoneMask: the zone index taken 1-based
ZoneMaskOneBased(zones, zone_idx) ==
    [k \in DOMAIN zones.data |-> zones.data[k] # zone_idx + 1]

\* zones != zone_idx
ZoneMask(zones, zone_idx) == [k \in DOMAIN zones.data |-> zones.data[k] # zone_idx]

\* values.mask | zone_mask: nomask is the scalar False, an array mask broadcasts
CombinedMask(values, zones, zone_idx) ==
    LET zm == ZoneMask(zones, zone_idx)
    IN  IF ~values.hasmask
        THEN [err |-> "", shape |-> zones.shape, flat |-> zm]
        ELSE IF ~Broadcastable(values.shape, zones.shape)
        THEN [err |-> "ValueError", shape |-> <<>>, flat |-> <<>>]
        ELSE LET r == BroadcastShape(values.shape, zones.shape)
                 a == BroadcastTo(values.mask, values.shape, r)
                 b == BroadcastTo(zm, zones.shape, r)
             IN  [err |-> "", shape |-> r, flat |-> [k \in 1..Size(r) |-> a[k] \/ b[k]]]

\* numpy.ma.masked_array(values, mask=m): a mask of another shape is resized
\* when it has one element, reshaped when it has as many elements as the data,
\* and refused otherwise; the mask values already has is kept (keep_mask)
MaskedArrayOf(values, m) ==
    LET n == Size(values.shape)
        given == IF m.shape = values.shape THEN m.flat
                 ELSE IF Size(m.shape) = 1 THEN [k \in 1..n |-> m.flat[1]]
                 ELSE m.flat
    IN  IF m.shape # values.shape /\ Size(m.shape) # 1 /\ Size(m.shape) # n
        THEN [err |-> "MaskError", mask |-> <<>>]
        ELSE [err |-> "",
              mask |-> [k \in 1..n |-> given[k] \/ (values.hasmask /\ values.mask[k])]]

AllCells(values) == 1..Size(values.shape)
RowCells(values, t) == ((t - 1) * values.shape[2] + 1)..(t * values.shape[2])

\* one requested statistic of one zone: a scalar when axis is None, one entry
\* per leading index when axis = 1
ZoneStatistic(statistic, values, mask, axis) ==
    IF axis = 0
    THEN IF statistic = "count" THEN CountUnmasked(mask, AllCells(values))
         ELSE MaskedReduce(statistic, values.data, mask, AllCells(values))
    ELSE [t \in 1..values.shape[1] |->
            IF statistic = "count" THEN CountUnmasked(mask, RowCells(values, t))
            ELSE MaskedReduce(statistic, values.data, mask, RowCells(values, t))]

\* mutant of AllMasked: masked.mask.max() == True
AnyMasked(mask) == \E k \in DOMAIN mask : mask[k]

\* masked.mask.min() == True
AllMasked(mask) == \A k \in DOMAIN mask : mask[k]

\* the body of the loop over enumerate(zone_values), for one zone_idx (0-based)
ZoneBody(results, zone_idx, zone, values, zones, stats, axis) ==
    LET cm == CombinedMask(values, zones, zone_idx)
        ma == MaskedArrayOf(values, cm)
        names == SeqToSet(stats)
    IN  IF cm.err # "" THEN [err |-> cm.err, results |-> results]
        ELSE IF ma.err # "" THEN [err |-> ma.err, results |-> results]
        ELSE IF AllMasked(ma.mask) THEN [err |-> "", results |-> results]
        ELSE IF \E s \in names : s \notin ArrayMethods \cup {"count"}
        THEN [err |-> "AttributeError", results |-> results]
        ELSE [err |-> "",
              results |-> DictSet(results, zone,
                             [s \in names |-> ZoneStatistic(s, values, ma.mask, axis)])]

RECURSIVE ZoneLoop(_, _, _, _, _, _, _)
ZoneLoop(results, zone_idx, zone_values, values, zones, stats, axis) ==
    IF zone_idx >= Len(zone_values) THEN [err |-> "", results |-> results]
    ELSE LET b == ZoneBody(results, zone_idx, zone_values[zone_idx + 1],
                           values, zones, stats, axis)
         IN  IF b.err # "" THEN b
             ELSE ZoneLoop(b.results, zone_idx + 1, zone_values, values, zones, stats, axis)

\* the whole call: [err, results], err = "" when it returns
calculate_zonal_statistics(zones, zone_values, values, stats) ==
    IF UnsupportedStatistics(stats) # {} THEN [err |-> "ValueError", results |-> EmptyDict]
    ELSE IF ~DimsSupported(values) THEN [err |-> "ValueError", results |-> EmptyDict]
    ELSE ZoneLoop(EmptyDict, 0, zone_values, FlattenSpatial(AsMasked(values)),
                  FlatZones(zones, values), stats, ReduceAxis(values))


\* ------------------------------------------------------------- state
VARIABLES
    zones,        \* argument: the zone raster [shape, data]
    zone_values,  \* argument: zone index -> attribute value
    values,       \* argument: the data array
    statistics,   \* argument: the requested statistic names
    pc,           \* position in calculate_zonal_statistics
    mvalues,      \* local values, after masking and reshaping
    fzones,       \* local zones, after .flat
    axis,         \* local axis
    zone_idx,     \* loop index of enumerate(zone_values)
    results,      \* local results
    error         \* the exception raised, "" when none

evars == <<zones, zone_values, values, statistics, pc, mvalues, fzones, axis,
           zone_idx, results, error>>

\* the zones command (cli/zones.py, zones)
VARIABLES
    shp,            \* the shapefile: [features, att_dtype]
    attribute,      \* --attribute given
    netcdf3,        \* --netcdf3 given
    zpc,            \* position in the zones command
    cursor,         \* number of filtered features consumed by the loop
    geometries,     \* local geometries: <<feature id, index>> pairs
    seen,           \* local values: the set of values met
    values_lookup,  \* local values_lookup: index -> value
    index,          \* local index
    dtype,          \* local dtype of the zone raster
    rasterized,     \* the (geometry, index) pairs handed to rasterize
    out_values,     \* the values variable written to the output
    zerror          \* the exception raised, "" when none

zvars == <<shp, attribute, netcdf3, zpc, cursor, geometries, seen, values_lookup,
           index, dtype, rasterized, out_values, zerror>>

\* the zonal_stats command (cli/zones.py, zonal_stats)
VARIABLES
    stat_option,     \* --statistics: the names between the commas
    var_option,      \* --variables: [given, names]
    files,           \* the datasets matching filename_pattern, in glob order
    zones_ds,        \* the zones dataset: [has_zone, has_values, zones, zone_values]
    cpc,             \* position in the command
    opened,          \* the files opened so far, in order
    cli_statistics,  \* local statistics
    cli_zones,       \* local zones
    cli_zone_values, \* local zone_values
    dimensions,      \* local dimensions (of the first variable of the first file)
    shape,           \* local shape
    num_dimensions,  \* local num_dimensions
    z_values,        \* local z_values
    file_i,          \* number of files processed by the loop over filenames
    var_i,           \* number of variables of the current file processed
    z_idx,           \* local z_idx
    cli_results,     \* local results: <<file, variable, z_value>> -> result
    output,          \* the output file: "absent", "empty" or "written"
    cerror           \* the exception raised, "" when none

cvars == <<stat_option, var_option, files, zones_ds, cpc, opened, cli_statistics,
           cli_zones, cli_zone_values, dimensions, shape, num_dimensions, z_values,
           file_i, var_i, z_idx, cli_results, output, cerror>>

\* what the engine's steps leave alone
\* a call of one of the library's functions or of the bin_ts command
\* (analysis/summary.py, analysis/timeseries.py, netcdf/variable.py, cli/calc.py)
VARIABLES
    fn,          \* the name of the function called, "" when none is
    args,        \* its arguments, a record by parameter name
    fpc,         \* "idle", "call", "loop", "returned" or "raised"
    locals,      \* the local variables of a function that loops
    ret,         \* the value returned
    ferror       \* the exception raised, "" when none

fvars == <<fn, args, fpc, locals, ret, ferror>>

outside_engine == <<zvars, cvars, fvars>>

\* ------------------------------------------------------ input domains
UINT8_FILL == 255

Cells(n) == [1..n -> 1..MaxVal]
Masks(n) == [1..n -> BOOLEAN]

\* the data arrays of a shape: plain ndarrays, masked arrays with nomask, and
\* masked arrays with a mask array
ArraysOf(s) ==
    {[kind |-> k, shape |-> s, data |-> d, hasmask |-> FALSE, mask |-> <<>>] :
        k \in {"ndarray", "ma"}, d \in Cells(Size(s))}
    \cup
    {[kind |-> "ma", shape |-> s, data |-> d, hasmask |-> TRUE, mask |-> m] :
        d \in Cells(Size(s)), m \in Masks(Size(s))}

\* the zone rasters of a shape: indices 0..MaxZones and the no-zone fill value
ZoneRastersOf(s) ==
    {[shape |-> s, data |-> d] :
        d \in [1..Size(s) -> (0..MaxZones) \cup {UINT8_FILL}]}

SeqsUpTo(S, n) == UNION {[1..k -> S] : k \in 0..n}

ZoneValueLists == SeqsUpTo(ZoneValueDomain, MaxZones)

StatRequests ==
    { <<>>, <<"count">>, <<"min", "max">>, <<"count", "min", "max", "sum">>,
      <<"mean", "min", "max", "std", "sum", "count">>, <<"mean", "bogus">> }

\* ------------------------------------------------------------ actions
\* line 137: the statistic names are checked first
CheckStatistics ==
    /\ pc = "start"
    /\ IF UnsupportedStatistics(statistics) # {}
       THEN pc' = "raised" /\ error' = "ValueError"
       ELSE pc' = "check_dims" /\ error' = error
    /\ UNCHANGED <<zones, zone_values, values, statistics, mvalues, fzones, axis,
                   zone_idx, results>>
    /\ UNCHANGED outside_engine

\* line 140
CheckDims ==
    /\ pc = "check_dims"
    /\ IF ~DimsSupported(values)
       THEN pc' = "raised" /\ error' = "ValueError"
       ELSE pc' = "prepare" /\ error' = error
    /\ UNCHANGED <<zones, zone_values, values, statistics, mvalues, fzones, axis,
                   zone_idx, results>>
    /\ UNCHANGED outside_engine

\* mutant of Prepare: values is converted and reshaped in place
PrepareInPlace ==
    /\ pc = "prepare"
    /\ mvalues' = FlattenSpatial(AsMasked(values))
    /\ values' = FlattenSpatial(AsMasked(values))
    /\ fzones' = FlatZones(zones, values)
    /\ axis' = ReduceAxis(values)
    /\ results' = EmptyDict
    /\ zone_idx' = 0
    /\ pc' = "loop"
    /\ UNCHANGED <<zones, zone_values, statistics, error>>
    /\ UNCHANGED outside_engine

\* lines 143-152
Prepare ==
    /\ pc = "prepare"
    /\ mvalues' = FlattenSpatial(AsMasked(values))
    /\ fzones' = FlatZones(zones, values)
    /\ axis' = ReduceAxis(values)
    /\ results' = EmptyDict
    /\ zone_idx' = 0
    /\ pc' = "loop"
    /\ UNCHANGED <<zones, zone_values, values, statistics, error>>
    /\ UNCHANGED outside_engine

\* lines 153-172: one iteration of the loop
ZoneStep ==
    /\ pc = "loop"
    /\ zone_idx < Len(zone_values)
    /\ LET b == ZoneBody(results, zone_idx, zone_values[zone_idx + 1],
                         mvalues, fzones, statistics, axis)
       IN  IF b.err # ""
           THEN pc' = "raised" /\ error' = b.err /\ UNCHANGED <<results, zone_idx>>
           ELSE pc' = pc /\ error' = error /\ results' = b.results
                /\ zone_idx' = zone_idx + 1
    /\ UNCHANGED <<zones, zone_values, values, statistics, mvalues, fzones, axis>>
    /\ UNCHANGED outside_engine

\* line 174
Return ==
    /\ pc = "loop"
    /\ zone_idx >= Len(zone_values)
    /\ pc' = "done"
    /\ UNCHANGED <<zones, zone_values, values, statistics, mvalues, fzones, axis,
                   zone_idx, results, error>>
    /\ UNCHANGED outside_engine

EngineNext == CheckStatistics \/ CheckDims \/ Prepare \/ ZoneStep \/ Return

EngineStart ==
    /\ pc = "start"
    /\ mvalues = <<>>
    /\ fzones = <<>>
    /\ axis = 0
    /\ zone_idx = 0
    /\ results = EmptyDict
    /\ error = ""

EngineIdle ==
    /\ zones = [shape |-> <<>>, data |-> <<>>]
    /\ zone_values = <<>>
    /\ values = [kind |-> "ndarray", shape |-> <<>>, data |-> <<>>,
                 hasmask |-> FALSE, mask |-> <<>>]
    /\ statistics = <<>>
    /\ pc = "idle"
    /\ mvalues = <<>>
    /\ fzones = <<>>
    /\ axis = 0
    /\ zone_idx = 0
    /\ results = EmptyDict
    /\ error = ""

\* no function is being called
FnIdle ==
    /\ fn = ""
    /\ args = <<>>
    /\ fpc = "idle"
    /\ locals = <<>>
    /\ ret = <<>>
    /\ ferror = ""

\* ----------------------------------------------------- the zones command
\* An attribute value is <<hi, lo>>: the 64-bit integer hi * 2^32 + lo with lo
\* in the signed 32-bit range (for a string attribute, the code of a string);
\* None is <<>>.
None == <<>>

MaxFeatures == 3     \* the shapefile holds at most MaxFeatures features
AttributeValues == {<<0, 1>>, <<0, 2>>, <<1, 1>>}

UINT16_FILL == 65535

\* out_values.astype('int32') of one int64 value: the low 32 bits
AsInt32(v) == <<0, v[2]>>

\* shp.filter(bbox=...): the features whose bounding box meets the grid's
FilterBBox(features) == SelectSeq(features, LAMBDA f : f.inbbox)

\* line 108: the attribute's value, or the feature id
FeatureValue(f, att) == IF att THEN f.prop ELSE <<0, f.id>>

\* lines 86-94: the attribute must be in the schema, of type int or str
AttributeError(file, att) ==
    IF ~att THEN ""
    ELSE IF file.att_dtype = "absent" THEN "BadParameter"
    ELSE IF file.att_dtype \notin {"int", "str"} THEN "BadParameter"
    ELSE ""

\* line 114: the index a geometry is appended with
ZoneIndexFor(value, idx, lookup) == idx

\* mutant of ZoneDtype: no slot of the 8-bit type is saved for nodata
ZoneDtypeNoSlot(num_geometries) ==
    IF num_geometries <= 256 THEN "uint8"
    ELSE IF num_geometries < 65535 THEN "uint16"
    ELSE ""

\* mutant of ZoneDtype: the 8-bit threshold taken inclusively
ZoneDtypeInclusive(num_geometries) ==
    IF num_geometries <= 255 THEN "uint8"
    ELSE IF num_geometries < 65535 THEN "uint16"
    ELSE ""

\* lines 123-130: the raster type for a number of geometries, "" when too many
ZoneDtype(num_geometries) ==
    IF num_geometries < 255 THEN "uint8"
    ELSE IF num_geometries < 65535 THEN "uint16"
    ELSE ""

\* netCDF4.default_fillvals, by the type code dtype.str[1:]
default_fillvals(code) ==
    CASE code = "u1" -> 255
      [] code = "u2" -> 65535
      [] code = "i2" -> -32767
      [] code = "i4" -> -2147483647

\* numpy.dtype(name).str[1:]
TypeCode(dt) ==
    CASE dt = "uint8" -> "u1"
      [] dt = "uint16" -> "u2"
      [] dt = "int16" -> "i2"
      [] dt = "int32" -> "i4"

\* lines 147-153: the type of the output variable
OutDtype(dt, nc3) ==
    IF ~nc3 THEN dt
    ELSE IF dt = "uint8" THEN "int16"
    ELSE IF dt = "uint16" THEN "int32"
    ELSE dt

\* get_fill_value(dtype)
FillValue(dt) == IF dt = "uint8" THEN UINT8_FILL ELSE UINT16_FILL

\* line 169: [values_lookup[k] for k in range(0, len(values_lookup))]
LookupList(lookup) == [k \in 1..Cardinality(DOMAIN lookup) |-> lookup[k - 1]]

\* lines 169-171: the values array, int64 values cast to int32 for NetCDF3
OutValues(lookup, is_int, nc3) ==
    LET list == LookupList(lookup)
    IN  IF nc3 /\ is_int /\ list # <<>>
        THEN [k \in DOMAIN list |-> AsInt32(list[k])]
        ELSE list

\* out_values holds integers: an int attribute, or feature ids
IntValued(file, att) == ~att \/ file.att_dtype = "int"

\* lines 85-106
ZOpen ==
    /\ zpc = "start"
    /\ IF AttributeError(shp, attribute) # ""
       THEN zpc' = "raised" /\ zerror' = AttributeError(shp, attribute)
       ELSE zpc' = "features" /\ zerror' = zerror
    /\ geometries' = <<>>
    /\ seen' = {}
    /\ values_lookup' = EmptyDict
    /\ index' = 0
    /\ UNCHANGED <<shp, attribute, netcdf3, cursor, dtype, rasterized, out_values>>
    /\ UNCHANGED <<evars, cvars, fvars>>

\* lines 107-119: one iteration of the loop over the filtered features
ZFeature ==
    /\ zpc = "features"
    /\ cursor < Len(FilterBBox(shp.features))
    /\ LET f == FilterBBox(shp.features)[cursor + 1]
           value == FeatureValue(f, attribute)
       IN  IF value # None
           THEN /\ geometries' = Append(geometries,
                                   <<f.id, ZoneIndexFor(value, index, values_lookup)>>)
                /\ IF value \notin seen
                   THEN /\ seen' = seen \cup {value}
                        /\ values_lookup' = DictSet(values_lookup, index, value)
                        /\ index' = index + 1
                   ELSE UNCHANGED <<seen, values_lookup, index>>
           ELSE UNCHANGED <<geometries, seen, values_lookup, index>>
    /\ cursor' = cursor + 1
    /\ UNCHANGED <<shp, attribute, netcdf3, zpc, dtype, rasterized, out_values, zerror>>
    /\ UNCHANGED <<evars, cvars, fvars>>

\* lines 123-134
ZChooseDtype ==
    /\ zpc = "features"
    /\ cursor >= Len(FilterBBox(shp.features))
    /\ IF ZoneDtype(Len(geometries)) = ""
       THEN zpc' = "raised" /\ zerror' = "UsageError" /\ dtype' = dtype
       ELSE zpc' = "rasterize" /\ zerror' = zerror /\ dtype' = ZoneDtype(Len(geometries))
    /\ UNCHANGED <<shp, attribute, netcdf3, cursor, geometries, seen, values_lookup,
                   index, rasterized, out_values>>
    /\ UNCHANGED <<evars, cvars, fvars>>

\* lines 136-144: the geometries are handed to rasterize
ZRasterize ==
    /\ zpc = "rasterize"
    /\ rasterized' = geometries
    /\ zpc' = "write"
    /\ UNCHANGED <<shp, attribute, netcdf3, cursor, geometries, seen, values_lookup,
                   index, dtype, out_values, zerror>>
    /\ UNCHANGED <<evars, cvars, fvars>>

\* lines 159-177: the values variable is written
ZWrite ==
    /\ zpc = "write"
    /\ out_values' = OutValues(values_lookup, IntValued(shp, attribute), netcdf3)
    /\ zpc' = "done"
    /\ UNCHANGED <<shp, attribute, netcdf3, cursor, geometries, seen, values_lookup,
                   index, dtype, rasterized, zerror>>
    /\ UNCHANGED <<evars, cvars, fvars>>

ZonesNext == ZOpen \/ ZFeature \/ ZChooseDtype \/ ZRasterize \/ ZWrite

ZonesStart ==
    /\ zpc = "start"
    /\ cursor = 0
    /\ geometries = <<>>
    /\ seen = {}
    /\ values_lookup = EmptyDict
    /\ index = 0
    /\ dtype = ""
    /\ rasterized = <<>>
    /\ out_values = <<>>
    /\ zerror = ""

ZonesIdle ==
    /\ shp = [features |-> <<>>, att_dtype |-> "absent"]
    /\ attribute = FALSE
    /\ netcdf3 = FALSE
    /\ zpc = "idle"
    /\ cursor = 0
    /\ geometries = <<>>
    /\ seen = {}
    /\ values_lookup = EmptyDict
    /\ index = 0
    /\ dtype = ""
    /\ rasterized = <<>>
    /\ out_values = <<>>
    /\ zerror = ""

\* the shapefiles: feature k (in file order) has id k - 1, a value of the
\* attribute or None, and a bounding box that meets the grid's or not
Shapefiles ==
    {[features |-> [k \in 1..n |-> [id |-> k - 1, prop |-> fs[k][1], inbbox |-> fs[k][2]]],
      att_dtype |-> d] :
        n \in 0..MaxFeatures,
        fs \in [1..MaxFeatures -> (AttributeValues \cup {None}) \X BOOLEAN],
        d \in {"int", "str", "float", "absent"}}

\* ------------------------------------------------ the zonal_stats command
MaxFiles == 2        \* filename_pattern matches at most MaxFiles files

\* statistics.split(','): the empty string gives one empty name
SplitCommas(s) == IF s = <<>> THEN <<"">> ELSE s

\* shape[-2:]
LastTwo(s) == IF Len(s) <= 2 THEN s ELSE SubSeq(s, Len(s) - 1, Len(s))

\* var_obj[z_idx], values[t]: slice t (1-based) of a 3D array
SliceOf(arr, t) ==
    LET n == arr.shape[2] * arr.shape[3]
    IN  [kind |-> arr.kind, shape |-> <<arr.shape[2], arr.shape[3]>>,
         data |-> [k \in 1..n |-> arr.data[(t - 1) * n + k]],
         hasmask |-> arr.hasmask,
         mask |-> IF arr.hasmask THEN [k \in 1..n |-> arr.mask[(t - 1) * n + k]]
                  ELSE <<>>]

VarNames(ds) == {ds.vars[k].name : k \in DOMAIN ds.vars}
VarNamed(ds, name) == ds.vars[CHOOSE k \in DOMAIN ds.vars : ds.vars[k].name = name]

\* variables or list(data_variables(ds).keys())
VariableList(ds, opt) ==
    IF opt.given THEN opt.names ELSE [k \in DOMAIN ds.vars |-> ds.vars[k].name]

\* set(variables).difference(ds.variables.keys())
MissingVariables(ds, opt) ==
    IF opt.given THEN SeqToSet(opt.names) \ VarNames(ds) ELSE {}

\* the arguments of a call of calculate_zonal_statistics from the command
CallEngine(z, zv, data, stats) ==
    /\ zones' = z
    /\ zone_values' = zv
    /\ values' = data
    /\ statistics' = stats
    /\ pc' = "start"
    /\ mvalues' = <<>>
    /\ fzones' = <<>>
    /\ axis' = 0
    /\ zone_idx' = 0
    /\ results' = EmptyDict
    /\ error' = ""

\* lines 208-218
CliParse ==
    /\ cpc = "start"
    /\ cli_statistics' = SplitCommas(stat_option)
    /\ IF UnsupportedStatistics(SplitCommas(stat_option)) # {}
       THEN cpc' = "raised" /\ cerror' = "BadParameter"
       ELSE cpc' = "glob" /\ cerror' = cerror
    /\ UNCHANGED <<stat_option, var_option, files, zones_ds, opened, cli_zones,
                   cli_zone_values, dimensions, shape, num_dimensions, z_values,
                   file_i, var_i, z_idx, cli_results, output>>
    /\ UNCHANGED <<evars, zvars, fvars>>

\* lines 220-225
CliGlob ==
    /\ cpc = "glob"
    /\ IF files = <<>>
       THEN cpc' = "raised" /\ cerror' = "BadParameter"
       ELSE cpc' = "zones" /\ cerror' = cerror
    /\ UNCHANGED <<stat_option, var_option, files, zones_ds, opened, cli_statistics,
                   cli_zones, cli_zone_values, dimensions, shape, num_dimensions,
                   z_values, file_i, var_i, z_idx, cli_results, output>>
    /\ UNCHANGED <<evars, zvars, fvars>>

\* lines 227-242
CliOpenZones ==
    /\ cpc = "zones"
    /\ opened' = Append(opened, "zones")
    /\ IF ~zones_ds.has_zone \/ ~zones_ds.has_values
       THEN /\ cpc' = "raised" /\ cerror' = "BadParameter"
            /\ UNCHANGED <<cli_zones, cli_zone_values>>
       ELSE /\ cpc' = "first" /\ cerror' = cerror
            /\ cli_zones' = zones_ds.zones
            /\ cli_zone_values' = zones_ds.zone_values
    /\ UNCHANGED <<stat_option, var_option, files, zones_ds, cli_statistics,
                   dimensions, shape, num_dimensions, z_values, file_i, var_i, z_idx,
                   cli_results, output>>
    /\ UNCHANGED <<evars, zvars, fvars>>

\* lines 244-266: the first variable of the first file fixes dimensions and shape
CliFirstFile ==
    /\ cpc = "first"
    /\ opened' = Append(opened, "input")
    /\ LET ds == files[1]
       IN  IF MissingVariables(ds, var_option) # {}
           THEN /\ cpc' = "raised" /\ cerror' = "BadParameter"
                /\ UNCHANGED <<dimensions, shape, num_dimensions, z_values>>
           ELSE LET var_obj == VarNamed(ds, VariableList(ds, var_option)[1])
                IN  IF LastTwo(var_obj.arr.shape) # cli_zones.shape
                       \/ Len(var_obj.arr.shape) > 3
                    THEN /\ cpc' = "raised" /\ cerror' = "UsageError"
                         /\ UNCHANGED <<dimensions, shape, num_dimensions, z_values>>
                    ELSE /\ cpc' = "files" /\ cerror' = cerror
                         /\ dimensions' = var_obj.dims
                         /\ shape' = var_obj.arr.shape
                         /\ num_dimensions' = Len(var_obj.arr.shape)
                         /\ z_values' = IF Len(var_obj.arr.shape) = 3 THEN ds.time
                                        ELSE z_values
    /\ UNCHANGED <<stat_option, var_option, files, zones_ds, cli_statistics, cli_zones,
                   cli_zone_values, file_i, var_i, z_idx, cli_results, output>>
    /\ UNCHANGED <<evars, zvars, fvars>>

\* lines 269-281
CliOpenFile ==
    /\ cpc = "files"
    /\ file_i < Len(files)
    /\ opened' = Append(opened, "input")
    /\ IF MissingVariables(files[file_i + 1], var_option) # {}
       THEN cpc' = "raised" /\ cerror' = "BadParameter" /\ var_i' = var_i
       ELSE cpc' = "variables" /\ cerror' = cerror /\ var_i' = 0
    /\ UNCHANGED <<stat_option, var_option, files, zones_ds, cli_statistics, cli_zones,
                   cli_zone_values, dimensions, shape, num_dimensions, z_values,
                   file_i, z_idx, cli_results, output>>
    /\ UNCHANGED <<evars, zvars, fvars>>

CurrentVariable ==
    VarNamed(files[file_i + 1], VariableList(files[file_i + 1], var_option)[var_i + 1])

\* lines 282-290 and 302-304: a 2D variable is passed whole
CliVariable ==
    /\ cpc = "variables"
    /\ var_i < Len(VariableList(files[file_i + 1], var_option))
    /\ IF CurrentVariable.dims # dimensions
       THEN /\ cpc' = "raised" /\ cerror' = "UsageError"
            /\ UNCHANGED <<z_idx, evars>>
       ELSE IF num_dimensions = 3
       THEN /\ cpc' = "slices" /\ cerror' = cerror /\ z_idx' = 0
            /\ UNCHANGED evars
       ELSE /\ cpc' = "call2d" /\ cerror' = cerror /\ z_idx' = z_idx
            /\ CallEngine(cli_zones, cli_zone_values, AsMasked(CurrentVariable.arr),
                          cli_statistics)
    /\ UNCHANGED <<stat_option, var_option, files, zones_ds, opened, cli_statistics,
                   cli_zones, cli_zone_values, dimensions, shape, num_dimensions,
                   z_values, file_i, var_i, cli_results, output>>
    /\ UNCHANGED <<zvars, fvars>>

\* lines 292-295: a 3D variable is passed slice by slice
CliSlice ==
    /\ cpc = "slices"
    /\ z_idx < shape[1]
    /\ IF z_idx >= CurrentVariable.arr.shape[1]
       THEN /\ cpc' = "raised" /\ cerror' = "IndexError"
            /\ UNCHANGED evars
       ELSE /\ cpc' = "call3d" /\ cerror' = cerror
            /\ CallEngine(cli_zones, cli_zone_values,
                          AsMasked(SliceOf(CurrentVariable.arr, z_idx + 1)),
                          cli_statistics)
    /\ UNCHANGED <<stat_option, var_option, files, zones_ds, opened, cli_statistics,
                   cli_zones, cli_zone_values, dimensions, shape, num_dimensions,
                   z_values, file_i, var_i, z_idx, cli_results, output>>
    /\ UNCHANGED <<zvars, fvars>>

\* lines 295 and 304: the call returned, its result is stored
CliStore ==
    /\ cpc \in {"call2d", "call3d"}
    /\ pc = "done"
    /\ pc' = "idle"
    /\ IF cpc = "call3d"
       THEN /\ cli_results' = DictSet(cli_results,
                                <<file_i + 1, CurrentVariable.name, z_values[z_idx + 1]>>,
                                results)
            /\ z_idx' = z_idx + 1 /\ var_i' = var_i /\ cpc' = "slices"
       ELSE /\ cli_results' = DictSet(cli_results,
                                <<file_i + 1, CurrentVariable.name, 0>>, results)
            /\ z_idx' = z_idx /\ var_i' = var_i + 1 /\ cpc' = "variables"
    /\ UNCHANGED <<stat_option, var_option, files, zones_ds, opened, cli_statistics,
                   cli_zones, cli_zone_values, dimensions, shape, num_dimensions,
                   z_values, file_i, output, cerror>>
    /\ UNCHANGED <<zones, zone_values, values, statistics, mvalues, fzones, axis,
                   zone_idx, results, error>>
    /\ UNCHANGED <<zvars, fvars>>

\* the call raised: the exception leaves the command
CliPropagate ==
    /\ cpc \in {"call2d", "call3d"}
    /\ pc = "raised"
    /\ cpc' = "raised"
    /\ cerror' = error
    /\ UNCHANGED <<stat_option, var_option, files, zones_ds, opened, cli_statistics,
                   cli_zones, cli_zone_values, dimensions, shape, num_dimensions,
                   z_values, file_i, var_i, z_idx, cli_results, output>>
    /\ UNCHANGED <<evars, zvars, fvars>>

\* line 292: the loop over range(shape[0]) ends
CliSlicesDone ==
    /\ cpc = "slices"
    /\ z_idx >= shape[1]
    /\ cpc' = "variables"
    /\ var_i' = var_i + 1
    /\ UNCHANGED <<stat_option, var_option, files, zones_ds, opened, cli_statistics,
                   cli_zones, cli_zone_values, dimensions, shape, num_dimensions,
                   z_values, file_i, z_idx, cli_results, output, cerror>>
    /\ UNCHANGED <<evars, zvars, fvars>>

\* line 282: the loop over the variables of a file ends
CliCloseFile ==
    /\ cpc = "variables"
    /\ var_i >= Len(VariableList(files[file_i + 1], var_option))
    /\ cpc' = "files"
    /\ file_i' = file_i + 1
    /\ UNCHANGED <<stat_option, var_option, files, zones_ds, opened, cli_statistics,
                   cli_zones, cli_zone_values, dimensions, shape, num_dimensions,
                   z_values, var_i, z_idx, cli_results, output, cerror>>
    /\ UNCHANGED <<evars, zvars, fvars>>

\* mutant of FilesDone: the loop over the files is left after the first file
FilesDoneAfterFirst == file_i >= 1

\* line 269: the loop over filenames is exhausted
FilesDone == file_i >= Len(files)

\* lines 306-332: the output is opened 'wb' and text is written to it, which
\* Python 2 accepts and Python 3 refuses after creating the file
CliWrite ==
    /\ cpc = "files"
    /\ FilesDone
    /\ opened' = Append(opened, "output")
    /\ \E python3 \in BOOLEAN :
          IF python3
          THEN output' = "empty" /\ cpc' = "raised" /\ cerror' = "TypeError"
          ELSE output' = "written" /\ cpc' = "done" /\ cerror' = cerror
    /\ UNCHANGED <<stat_option, var_option, files, zones_ds, cli_statistics, cli_zones,
                   cli_zone_values, dimensions, shape, num_dimensions, z_values,
                   file_i, var_i, z_idx, cli_results>>
    /\ UNCHANGED <<evars, zvars, fvars>>

CliNext ==
    \/ CliParse \/ CliGlob \/ CliOpenZones \/ CliFirstFile \/ CliOpenFile
    \/ CliVariable \/ CliSlice \/ CliStore \/ CliPropagate \/ CliSlicesDone
    \/ CliCloseFile \/ CliWrite

CliLocalsStart ==
    /\ opened = <<>>
    /\ cli_statistics = <<>>
    /\ cli_zones = [shape |-> <<>>, data |-> <<>>]
    /\ cli_zone_values = <<>>
    /\ dimensions = <<>>
    /\ shape = <<>>
    /\ num_dimensions = 0
    /\ z_values = <<>>
    /\ file_i = 0
    /\ var_i = 0
    /\ z_idx = 0
    /\ cli_results = EmptyDict
    /\ output = "absent"
    /\ cerror = ""

CliIdle ==
    /\ stat_option = <<>>
    /\ var_option = [given |-> FALSE, names |-> <<>>]
    /\ files = <<>>
    /\ zones_ds = [has_zone |-> FALSE, has_values |-> FALSE,
                   zones |-> [shape |-> <<>>, data |-> <<>>], zone_values |-> <<>>]
    /\ cpc = "idle"
    /\ CliLocalsStart

\* the arrays of the datasets: data 1, 2, .. in row-major order, without a
\* mask array ("nomask"), with one masking nothing ("clear") or masking the
\* first cell ("first")
DatasetArray(s, m) ==
    [kind |-> "ma", shape |-> s,
     data |-> [k \in 1..Size(s) |-> ((k - 1) % MaxVal) + 1],
     hasmask |-> m # "nomask",
     mask |-> IF m = "nomask" THEN <<>> ELSE [k \in 1..Size(s) |-> m = "first" /\ k = 1]]

DatasetVariable(name, dims, s, m) ==
    [name |-> name, dims |-> dims, arr |-> DatasetArray(s, m)]

YX == <<"y", "x">>
TYX == <<"time", "y", "x">>
TallerGrid == <<GridShape[1] + 1, GridShape[2]>>
TransposedGrid == <<GridShape[2], GridShape[1]>>

\* the datasets: on the zones' grid, on other grids, with and without a
\* leading time dimension, with one or two data variables
Datasets ==
    { [vars |-> <<DatasetVariable("a", YX, GridShape, "nomask")>>, time |-> <<>>],
      [vars |-> <<DatasetVariable("a", YX, GridShape, "first")>>, time |-> <<>>],
      [vars |-> <<DatasetVariable("a", YX, GridShape, "nomask"),
                  DatasetVariable("b", YX, GridShape, "first")>>, time |-> <<>>],
      [vars |-> <<DatasetVariable("a", YX, TallerGrid, "clear")>>, time |-> <<>>],
      [vars |-> <<DatasetVariable("a", YX, TallerGrid, "nomask")>>, time |-> <<>>],
      [vars |-> <<DatasetVariable("a", YX, TransposedGrid, "nomask")>>, time |-> <<>>],
      [vars |-> <<DatasetVariable("a", TYX, <<2>> \o GridShape, "first")>>,
       time |-> <<100, 200>>],
      [vars |-> <<DatasetVariable("a", TYX, <<2>> \o GridShape, "clear"),
                  DatasetVariable("b", TYX, <<2>> \o GridShape, "first")>>,
       time |-> <<100, 200>>],
      [vars |-> <<DatasetVariable("a", TYX, <<1>> \o GridShape, "clear")>>,
       time |-> <<100>>],
      [vars |-> <<DatasetVariable("a", YX, GridShape, "nomask"),
                  DatasetVariable("b", TYX, <<2>> \o GridShape, "clear")>>,
       time |-> <<100, 200>>],
      [vars |-> <<DatasetVariable("a", <<"e", "time", "y", "x">>,
                                  <<1, 1>> \o GridShape, "nomask")>>,
       time |-> <<100>>],
      [vars |-> <<DatasetVariable("a", <<"x">>, <<GridShape[2]>>, "nomask")>>,
       time |-> <<>>] }

ZonesDatasets ==
    {[has_zone |-> h[1], has_values |-> h[2],
      zones |-> [shape |-> GridShape, data |-> [k \in 1..Size(GridShape) |-> (k - 1) % 2]],
      zone_values |-> <<10, 20>>] :
        h \in {<<TRUE, TRUE>>, <<FALSE, TRUE>>, <<TRUE, FALSE>>}}

StatOptions == { <<>>, <<"count", "sum">>, <<"mean", "bogus">> }

VarOptions ==
    { [given |-> FALSE, names |-> <<>>], [given |-> TRUE, names |-> <<"a">>],
      [given |-> TRUE, names |-> <<"b", "a">>] }

vars == <<evars, zvars, cvars, fvars>>

\* 2D calls on a grid of the zone raster's shape
Init ==
    /\ zones \in ZoneRastersOf(GridShape)
    /\ zone_values \in ZoneValueLists
    /\ values \in ArraysOf(GridShape)
    /\ statistics \in StatRequests
    /\ EngineStart
    /\ ZonesIdle
    /\ CliIdle
    /\ FnIdle

Next == EngineNext

Spec == Init /\ [][Next]_vars

\* runs of the zones command
InitZones ==
    /\ shp \in Shapefiles
    /\ attribute \in BOOLEAN
    /\ netcdf3 \in BOOLEAN
    /\ ZonesStart
    /\ EngineIdle
    /\ CliIdle
    /\ FnIdle

SpecZones == InitZones /\ [][ZonesNext]_vars


\* runs of the zonal_stats command
InitCli ==
    /\ stat_option \in StatOptions
    /\ var_option \in VarOptions
    /\ files \in SeqsUpTo(Datasets, MaxFiles)
    /\ zones_ds \in ZonesDatasets
    /\ cpc = "start"
    /\ CliLocalsStart
    /\ EngineIdle
    /\ ZonesIdle
    /\ FnIdle

\* the shapes of the arrays passed to direct calls
ValueShapes ==
    { <<GridShape[2]>>, GridShape, TallerGrid, TransposedGrid, <<1, 1>>,
      <<1>> \o GridShape, <<2>> \o GridShape, <<2>> \o TallerGrid, <<1, 1>> \o GridShape }

ZoneShapes == { GridShape, TransposedGrid, <<1, 1>> }

\* direct calls with arrays of any of these shapes
InitShapes ==
    /\ zones \in {z \in UNION {ZoneRastersOf(s) : s \in ZoneShapes} :
                     \A k \in DOMAIN z.data : z.data[k] \in {0, 1}}
    /\ zone_values \in ZoneValueLists
    /\ values \in {DatasetArray(s, m) : s \in ValueShapes,
                                        m \in {"nomask", "clear", "first"}}
    /\ statistics \in StatRequests
    /\ EngineStart
    /\ ZonesIdle
    /\ CliIdle
    /\ FnIdle

SpecCli == (InitCli \/ InitShapes) /\ [][EngineNext \/ CliNext]_vars

\* ------------------------------------------------- claims on 2D calls
\* pixel p of the argument values is masked
PixelMasked(p) == values.hasmask /\ values.mask[p]

\* the pixels of zone index i that are unmasked in values
CountedPixels(i) ==
    {p \in 1..Size(values.shape) : zones.data[p] = i /\ ~PixelMasked(p)}

ZoneIndices == 0..(Len(zone_values) - 1)

\* the statistic s of zone index i, by its definition
Expected(s, i) ==
    CASE s = "count" -> Scalar(Cardinality(CountedPixels(i)))
      [] s = "sum" -> Scalar(SumOver(values.data, CountedPixels(i)))
      [] s = "min" -> Scalar(CHOOSE m \in {values.data[p] : p \in CountedPixels(i)} :
                               \A p \in CountedPixels(i) : m <= values.data[p])
      [] s = "max" -> Scalar(CHOOSE m \in {values.data[p] : p \in CountedPixels(i)} :
                               \A p \in CountedPixels(i) : m >= values.data[p])

BasicStatistics == {"count", "min", "max", "sum"}

HoldsStatisticsOf(i) ==
    /\ zone_values[i + 1] \in DOMAIN results
    /\ \A s \in SeqToSet(statistics) \cap BasicStatistics :
          results[zone_values[i + 1]][s] = Expected(s, i)

\* a later zone index with the same zone value and counted pixels
Shadowed(i) ==
    \E j \in ZoneIndices :
        j > i /\ zone_values[j + 1] = zone_values[i + 1] /\ CountedPixels(j) # {}

\* C1 as stated: for any zone_values, the entry under zone_values[i] holds
\* count, min, max and sum of the unmasked pixels of zone index i
C1_AsStated ==
    pc = "done" =>
        \A i \in ZoneIndices : CountedPixels(i) # {} => HoldsStatisticsOf(i)

\* C1 amended: the entry under zone_values[i] holds count, min, max and sum of
\* the unmasked pixels of zone index i, for every zone index i with an
\* unmasked pixel that no later index with the same zone value and an
\* unmasked pixel follows
C1_KeyedStatistics ==
    pc = "done" =>
        \A i \in ZoneIndices :
            (CountedPixels(i) # {} /\ ~Shadowed(i)) => HoldsStatisticsOf(i)

C1_Witness ==
    /\ pc = "done"
    /\ SeqToSet(statistics) = BasicStatistics
    /\ \E i \in ZoneIndices :
          /\ ~Shadowed(i)
          /\ Cardinality(CountedPixels(i)) = 2
          /\ Cardinality({values.data[p] : p \in CountedPixels(i)}) = 2
          /\ zone_values[i + 1] # i

\* C2: the keys of a 2D result are the values of the zones with an unmasked
\* pixel, each with exactly the requested statistic names and no masked entry
C2_KeySet ==
    pc = "done" =>
        /\ DOMAIN results =
              {zone_values[i + 1] : i \in {j \in ZoneIndices : CountedPixels(j) # {}}}
        /\ \A k \in DOMAIN results :
              /\ DOMAIN results[k] = SeqToSet(statistics)
              /\ \A s \in DOMAIN results[k] : ~results[k][s].masked

C2_Witness ==
    /\ pc = "done"
    /\ statistics # <<>>
    /\ \E i, j \in ZoneIndices :
          /\ zone_values[i + 1] # zone_values[j + 1]
          /\ CountedPixels(i) = {}
          /\ \E p \in DOMAIN zones.data : zones.data[p] = i /\ PixelMasked(p)
          /\ CountedPixels(j) # {}
          /\ zone_values[i + 1] \notin DOMAIN results
          /\ zone_values[j + 1] \in DOMAIN results

\* C4 as stated: a call whose zone raster holds a non-fill index without an
\* entry in zone_values does not return a result
C4_OutOfRangeRaises ==
    (\E p \in DOMAIN zones.data :
        zones.data[p] # UINT8_FILL /\ zones.data[p] >= Len(zone_values))
    => pc # "done"


\* ------------------------------------------------- claims on 3D calls
StatRequests3D == { <<"count", "min", "max", "sum">>, <<"mean", "sum">> }

\* 3D calls: a leading index over grids of the zone raster's shape
Init3D ==
    /\ zones \in ZoneRastersOf(GridShape)
    /\ zone_values \in ZoneValueLists
    /\ values \in UNION {ArraysOf(<<t>> \o GridShape) : t \in TimeSteps}
    /\ statistics \in StatRequests3D
    /\ EngineStart
    /\ ZonesIdle
    /\ CliIdle
    /\ FnIdle

Spec3D == Init3D /\ [][Next]_vars

\* the pixels of zone index i that are unmasked in slice t of values
CountedPixelsAt(i, t) ==
    LET n == Size(zones.shape)
    IN  {p \in 1..n : zones.data[p] = i /\ ~PixelMasked((t - 1) * n + p)}

\* C6 as stated: in a 3D result no zone has an entry for a slice in which all
\* its pixels are masked, and no entry of any slice is masked
C6_SliceOmitted ==
    (pc = "done" /\ Len(values.shape) = 3) =>
        \A k \in DOMAIN results : \A s \in DOMAIN results[k] :
            \A t \in 1..values.shape[1] :
                /\ ~results[k][s][t].masked
                /\ \E i \in ZoneIndices :
                      zone_values[i + 1] = k /\ CountedPixelsAt(i, t) # {}

\* C7 as stated: a 3D call returns, and entry t of a statistic of a zone with
\* an unmasked pixel in slice t is that statistic of the 2D call on values[t]
C7_SliceBySlice ==
    (Len(values.shape) = 3 /\ UnsupportedStatistics(statistics) = {}) =>
        /\ pc # "raised"
        /\ pc = "done" =>
              \A t \in 1..values.shape[1] :
                  LET two == calculate_zonal_statistics(zones, zone_values,
                                                        SliceOf(values, t), statistics)
                  IN  /\ two.err = ""
                      /\ \A k \in DOMAIN two.results :
                            /\ k \in DOMAIN results
                            /\ \A s \in SeqToSet(statistics) \cap BasicStatistics :
                                  results[k][s][t] = two.results[k][s]


\* ------------------------------------------ claims on the zones command
\* the value of the feature with the given id
ValueOfId(id) == FeatureValue(shp.features[id + 1], attribute)

\* the values of the features that reach the loop, None left out
RasterizedValues ==
    LET fs == FilterBBox(shp.features)
        vs == [k \in DOMAIN fs |-> FeatureValue(fs[k], attribute)]
    IN  SelectSeq(vs, LAMBDA v : v # None)

\* the distinct elements of a sequence, in order of first occurrence
RECURSIVE FirstOccurrences(_)
FirstOccurrences(s) ==
    IF s = <<>> THEN <<>>
    ELSE LET front == FirstOccurrences(SubSeq(s, 1, Len(s) - 1))
             last == s[Len(s)]
         IN  IF \E k \in DOMAIN front : front[k] = last THEN front
             ELSE Append(front, last)

\* C8 as stated: every geometry handed to the rasterizer carries the index
\* whose table entry is its feature's value, so equal values share an index
C8_IndexOfValue ==
    \A k \in DOMAIN rasterized :
        /\ rasterized[k][2] \in DOMAIN values_lookup
        /\ values_lookup[rasterized[k][2]] = ValueOfId(rasterized[k][1])
        /\ \A l \in DOMAIN rasterized :
              ValueOfId(rasterized[l][1]) = ValueOfId(rasterized[k][1])
                  => rasterized[l][2] = rasterized[k][2]

\* C9 as stated: the indices handed to the rasterizer are exactly 0..N-1, N
\* the number of distinct values rasterized, and so are the table's indices
C9_DenseIndices ==
    zpc \in {"write", "done"} =>
        LET N == Cardinality({ValueOfId(rasterized[k][1]) : k \in DOMAIN rasterized})
        IN  /\ {rasterized[k][2] : k \in DOMAIN rasterized} = 0..(N - 1)
            /\ DOMAIN values_lookup = 0..(N - 1)

\* C10 as stated: the values variable written holds the distinct non-null
\* values (feature ids without an attribute) in order of first occurrence
C10_TableByFirstOccurrence ==
    zpc = "done" => out_values = FirstOccurrences(RasterizedValues)


\* ------------------------------- claims on requests and shapes refused
\* some requested name is none of mean, min, max, std, sum, count
HasUnsupported(names) ==
    \E k \in DOMAIN names : names[k] \notin VALID_ZONAL_STATISTICS

\* C3: a call with an unsupported statistic name raises before anything is
\* prepared or any zone processed and holds no result; the command given such
\* names stops before it opens any file or calls the engine
C3_RejectedFirst ==
    /\ (pc # "idle" /\ HasUnsupported(statistics)) =>
          /\ pc \in {"start", "raised"}
          /\ pc = "raised" => error = "ValueError"
          /\ zone_idx = 0 /\ results = EmptyDict /\ mvalues = <<>>
    /\ (cpc # "idle" /\ HasUnsupported(SplitCommas(stat_option))) =>
          /\ cpc \in {"start", "raised"}
          /\ cpc = "raised" => cerror = "BadParameter"
          /\ opened = <<>> /\ output = "absent" /\ pc = "idle"
          /\ cli_results = EmptyDict

C3_Witness ==
    /\ pc = "raised"
    /\ error = "ValueError"
    /\ statistics = <<"mean", "bogus">>
    /\ zone_values # <<>>
    /\ zones.shape = LastTwo(values.shape)
    /\ Len(values.shape) = 2

\* the command's side of C3: a request rejected with files to process
C3_CommandRejects ==
    /\ cpc = "raised"
    /\ cerror = "BadParameter"
    /\ stat_option = <<"mean", "bogus">>
    /\ files # <<>>
    /\ zones_ds.has_zone /\ zones_ds.has_values

\* the array passed to the engine is not 2D or 3D, or the zone raster's shape
\* is not the shape of its trailing two axes
ShapeMismatch ==
    /\ pc # "idle"
    /\ \/ Len(values.shape) \notin {2, 3}
       \/ zones.shape # LastTwo(values.shape)

\* C5 as stated: no call with such arrays returns statistics, whether made
\* directly or by the command for any variable of any file
C5_MismatchRaises == ShapeMismatch => ~(pc = "done" /\ results # EmptyDict)

\* the command's side of C5 alone
C5_CommandMismatchRaises ==
    (ShapeMismatch /\ cpc # "idle") => ~(pc = "done" /\ results # EmptyDict)

\* ------------------------------------ the zones partition the pixels
DistinctZoneValues ==
    \A i, j \in ZoneIndices : i # j => zone_values[i + 1] # zone_values[j + 1]

\* the unmasked pixels whose zone index has an entry in zone_values
PixelsInZones ==
    {p \in 1..Size(values.shape) : zones.data[p] \in ZoneIndices /\ ~PixelMasked(p)}

CountsOf(res) == [k \in DOMAIN res |-> res[k]["count"].num]

\* C27: for 2D values and pairwise distinct zone_values the counts of the
\* zones add up to the number of unmasked pixels whose zone index lies in
\* [0, len(zone_values)): each such pixel is counted in the zone of its index
\* and in no other, and a pixel holding the fill value in none
C27_CountsPartition ==
    (pc = "done" /\ "count" \in SeqToSet(statistics) /\ DistinctZoneValues) =>
        /\ SumOver(CountsOf(results), DOMAIN results) = Cardinality(PixelsInZones)
        /\ \A i \in ZoneIndices :
              IF CountedPixels(i) = {} THEN zone_values[i + 1] \notin DOMAIN results
              ELSE /\ zone_values[i + 1] \in DOMAIN results
                   /\ results[zone_values[i + 1]]["count"] =
                         Scalar(Cardinality(CountedPixels(i)))
        /\ \A p \in 1..Size(values.shape) :
              zones.data[p] = UINT8_FILL => p \notin PixelsInZones

\* two zones, one pixel in the second, the other pixel holding the fill value
C27_Witness ==
    /\ pc = "done"
    /\ statistics = <<"count">>
    /\ zone_values = <<10, 20>>
    /\ zones.data = <<1, UINT8_FILL>>
    /\ ~values.hasmask
    /\ DOMAIN results = {20}
    /\ results[20]["count"] = Scalar(1)

\* two zones of one pixel each
C27_BothZones ==
    /\ pc = "done"
    /\ "count" \in SeqToSet(statistics)
    /\ zone_values = <<20, 10>>
    /\ zones.data = <<1, 0>>
    /\ DOMAIN results = {10, 20}
    /\ SumOver(CountsOf(results), DOMAIN results) = 2

\* ------------------------------------------ the call leaves its inputs
\* the loop body for zone index i on the arguments of the call, no other
\* zone processed before it
ZoneAlone(i) ==
    ZoneBody(EmptyDict, i, zone_values[i + 1], FlattenSpatial(AsMasked(values)),
             FlatZones(zones, values), statistics, ReduceAxis(values))

\* results with the entry, if any, that zone index i yields when alone
WithZoneAlone(res, i) ==
    IF ZoneAlone(i).results = EmptyDict THEN res
    ELSE DictSet(res, zone_values[i + 1], ZoneAlone(i).results[zone_values[i + 1]])

LoopGeometries(c, d) ==
    [k \in 1..c |-> <<k - 1, IF k <= d THEN k - 1 ELSE d>>]

CycleValue(k, d) == <<0, 1 + ((k - 1) % d)>>

\* a shapefile of n features holding d values in rotation
CycleShapefile(n, d) ==
    [features |-> [k \in 1..n |-> [id |-> k - 1, prop |-> CycleValue(k, d),
                                   inbbox |-> TRUE]],
     att_dtype |-> "int"]

\* the number of distinct values among the first c features
DistinctAfter(c, d, att) == IF att THEN (IF c < d THEN c ELSE d) ELSE c

\* the value entered in the table under index i
LoopValue(i, d, att) == IF att THEN CycleValue(i + 1, d) ELSE <<0, i>>

LoopLookup(c, d, att) ==
    [i \in 0..(DistinctAfter(c, d, att) - 1) |-> LoopValue(i, d, att)]

\* feature counts around the 8-bit threshold, run through the loop itself
NearUint8 == {253, 254, 255, 256}
\* feature counts around the 16-bit threshold, taken up where the loop ends
NearUint16 == {65534, 65535, 65536}
ValueCounts == {1, 2}

InitZonesMany ==
    /\ \E n \in NearUint8, d \in ValueCounts : shp = CycleShapefile(n, d)
    /\ attribute \in BOOLEAN
    /\ netcdf3 \in BOOLEAN
    /\ ZonesStart
    /\ EngineIdle
    /\ CliIdle
    /\ FnIdle

\* runs without --attribute, every feature id a zone of its own
InitZonesLoopDone ==
    /\ \E n \in NearUint16, d \in {1} :
          /\ shp = CycleShapefile(n, d)
          /\ attribute = FALSE
          /\ cursor = n
          /\ geometries = LoopGeometries(n, DistinctAfter(n, d, attribute))
          /\ values_lookup = LoopLookup(n, d, attribute)
          /\ seen = {LoopValue(i, d, attribute) :
                          i \in 0..(DistinctAfter(n, d, attribute) - 1)}
          /\ index = DistinctAfter(n, d, attribute)
    /\ netcdf3 \in BOOLEAN
    /\ zpc = "features"
    /\ dtype = ""
    /\ rasterized = <<>>
    /\ out_values = <<>>
    /\ zerror = ""
    /\ EngineIdle
    /\ CliIdle
    /\ FnIdle

SpecZonesMany == (InitZonesMany \/ InitZonesLoopDone) /\ [][ZonesNext]_vars

\* the loop's state in closed form, at every iteration of the runs that go
\* through the loop
LoopClosedForm ==
    (zpc = "features" /\ shp.features # <<>>) =>
        LET d == Cardinality({shp.features[k].prop : k \in DOMAIN shp.features})
            m == DistinctAfter(cursor, d, attribute)
        IN  /\ geometries = LoopGeometries(cursor, m)
            /\ values_lookup = LoopLookup(cursor, d, attribute)
            /\ index = m

\* the feature loop has ended and a raster type has been chosen or refused
TypeChosen == zpc \in {"rasterize", "write", "done"}
TooMany == zpc = "raised" /\ zerror = "UsageError"

C11_RefusedWitness ==
    /\ TooMany
    /\ Len(geometries) = 65535

\* the geometries as they are, or will be, handed to the rasterizer
SentToRasterizer == IF zpc = "rasterize" THEN geometries ELSE rasterized

\* C26: in every run of the zones command that is not refused for too many
\* features, every zone index attached to a geometry handed to the rasterizer
\* is at least 0 and strictly below the fill value of the chosen type, so no
\* zone cell equals the fill value that the NetCDF3 conversion masks
C26_IndexBelowFill ==
    TypeChosen =>
        /\ dtype \in {"uint8", "uint16"}
        /\ \A k \in DOMAIN SentToRasterizer :
              /\ 0 <= SentToRasterizer[k][2]
              /\ SentToRasterizer[k][2] < FillValue(dtype)
              /\ SentToRasterizer[k][2] # default_fillvals(TypeCode(dtype))

\* 254 features, each a zone, in the 8-bit type: the last index is 253
C26_Witness ==
    /\ zpc = "done"
    /\ netcdf3
    /\ dtype = "uint8"
    /\ Len(rasterized) = 254
    /\ rasterized[254][2] = 253
    /\ FillValue(dtype) = 255

\* ------------------------------------------------ analysis/summary.py
\* --------------------------------------------- summarize_count_by_category
\* arrays of categories 0..MaxVal: plain ndarrays, masked arrays with nomask,
\* and masked arrays with a mask array
CategoryArraysOf(s) ==
    {[kind |-> k, shape |-> s, data |-> d, hasmask |-> FALSE, mask |-> <<>>] :
        k \in {"ndarray", "ma"}, d \in [1..Size(s) -> 0..MaxVal]}
    \cup
    {[kind |-> "ma", shape |-> s, data |-> d, hasmask |-> TRUE, mask |-> m] :
        d \in [1..Size(s) -> 0..MaxVal], m \in Masks(Size(s))}

\* values.ravel()
Ravel(a) == [a EXCEPT !.shape = <<Size(a.shape)>>]

\* lines 20-22: weights stays None for an ndarray; for a masked array it is
\* flat_values.mask == False, an array of 0/1 when the mask is an array and
\* the scalar True when the mask is nomask
CountWeights(vals, flat_values) ==
    IF vals.kind # "ma" THEN [kind |-> "None", w |-> <<>>]
    ELSE IF flat_values.hasmask
         THEN [kind |-> "array",
               w |-> [k \in DOMAIN flat_values.mask |->
                         IF flat_values.mask[k] = FALSE THEN 1 ELSE 0]]
         ELSE [kind |-> "scalar", w |-> <<>>]

\* numpy.bincount(x, weights): for v in 0..max(x), the number of cells of x
\* equal to v, or the sum of their weights; weights must be a 1-D array as
\* long as x
bincount(x, weights) ==
    IF weights.kind = "scalar" \/ (weights.kind = "array" /\ Len(weights.w) # Len(x))
    THEN [err |-> "ValueError", out |-> <<>>]
    ELSE IF \E k \in DOMAIN x : x[k] < 0
    THEN [err |-> "ValueError", out |-> <<>>]
    ELSE LET w == IF weights.kind = "None" THEN [k \in DOMAIN x |-> 1] ELSE weights.w
             top == IF x = <<>> THEN -1 ELSE MaxOver(x, DOMAIN x)
         IN  [err |-> "",
              out |-> [v \in 0..top |-> SumOver(w, {k \in DOMAIN x : x[k] = v})]]

\* numpy.flatnonzero(a)
flatnonzero(a) == {i \in DOMAIN a : a[i] # 0}

\* lines 19-26
summarize_count_by_category(vals) ==
    LET flat_values == Ravel(vals)
        weights == CountWeights(vals, flat_values)
        b == bincount(flat_values.data, weights)
        nonzero_indices == flatnonzero(b.out)
    IN  IF b.err # "" THEN [err |-> b.err, results |-> EmptyDict]
        ELSE [err |-> "", results |-> [v \in nonzero_indices |-> b.out[v]]]

\* a function call ends: with the exception r.err, or returning r.results
FnFinish(r) ==
    /\ IF r.err # ""
       THEN fpc' = "raised" /\ ferror' = r.err /\ ret' = ret
       ELSE fpc' = "returned" /\ ret' = r.results /\ ferror' = ferror
    /\ UNCHANGED <<fn, args, locals>>
    /\ UNCHANGED <<evars, zvars, cvars>>

CountByCategory ==
    /\ fpc = "call"
    /\ fn = "summarize_count_by_category"
    /\ FnFinish(summarize_count_by_category(args.values))

\* a function is called with the arguments a
FnCall(name, a) ==
    /\ fn = name
    /\ args = a
    /\ fpc = "call"
    /\ locals = <<>>
    /\ ret = <<>>
    /\ ferror = ""

CategoryShapes == {<<3>>, <<1, 2>>}

InitCountByCategory ==
    \E s \in CategoryShapes : \E a \in CategoryArraysOf(s) :
        FnCall("summarize_count_by_category", [values |-> a])

\* the pixels of an array that are not masked
Unmasked(a) == {k \in DOMAIN a.data : ~(a.hasmask /\ a.mask[k])}

\* C12 as stated: the call returns the mapping from every value held by an
\* unmasked pixel to the number of unmasked pixels holding it, and the counts
\* sum to the number of unmasked pixels
C12_CountsUnmasked ==
    (fn = "summarize_count_by_category" /\ fpc # "call") =>
        LET v == args.values
            keys == {v.data[k] : k \in Unmasked(v)}
        IN  /\ fpc = "returned"
            /\ DOMAIN ret = keys
            /\ \A c \in keys :
                  ret[c] = Cardinality({k \in Unmasked(v) : v.data[k] = c})
            /\ SumOver(ret, DOMAIN ret) = Cardinality(Unmasked(v))

\* the same for ndarrays and for masked arrays that hold a mask array
C12_CountsWithMaskArray ==
    (fn = "summarize_count_by_category"
        /\ (args.values.kind = "ndarray" \/ args.values.hasmask)) => C12_CountsUnmasked

\* --------------------------------------------- summarize_areas_by_category
\* numpy.ma.unique(flat_values), iterated: the distinct values of the unmasked
\* cells, and numpy.ma.masked once when a cell is masked
ma_unique(a) ==
    [unmasked |-> {a.data[k] : k \in Unmasked(a)},
     has_masked |-> Unmasked(a) # DOMAIN a.data]

\* mutant of NotEqual: the data compared and the mask of the cells left out
NotEqualData(a, v) == [k \in DOMAIN a.data |-> a.data[k] # v]

\* flat_values != value, taken as a mask: a masked cell compares unequal
NotEqual(a, v) ==
    [k \in DOMAIN a.data |-> IF a.hasmask /\ a.mask[k] THEN TRUE ELSE a.data[k] # v]

\* line 53: numpy.ma.masked_array(flat_areas, mask=flat_values != value).sum()
AreaOfCategory(flat_values, flat_areas, v) ==
    LET m == MaskedArrayOf(flat_areas,
                           [shape |-> flat_values.shape, flat |-> NotEqual(flat_values, v)])
    IN  [err |-> m.err,
         total |-> IF m.err # "" THEN MaskedConstant
                   ELSE MaskedReduce("sum", flat_areas.data, m.mask, DOMAIN flat_areas.data)]

\* lines 48-54
summarize_areas_by_category(vals, areas) ==
    LET flat_values == Ravel(vals)
        flat_areas == Ravel(areas)
        u == ma_unique(flat_values)
        each == [v \in u.unmasked |-> AreaOfCategory(flat_values, flat_areas, v)]
    IN  IF \E v \in u.unmasked : each[v].err # ""
        THEN [err |-> "MaskError", results |-> EmptyDict]
        ELSE [err |-> "", results |-> [v \in u.unmasked |-> each[v].total]]

AreasByCategory ==
    /\ fpc = "call"
    /\ fn = "summarize_areas_by_category"
    /\ FnFinish(summarize_areas_by_category(args.values, args.areas))

\* areas of the shape of values: every array of two cells, and plain arrays
\* of three
InitAreasByCategory ==
    \E s \in CategoryShapes : \E a \in CategoryArraysOf(s) : \E w \in ArraysOf(s) :
        /\ Size(s) > 2 => w.kind = "ndarray"
        /\ FnCall("summarize_areas_by_category", [values |-> a, areas |-> w])

\* C13: the call returns a mapping whose keys are the categories held by an
\* unmasked pixel of values; the entry of category c is the sum of areas over
\* the pixels where values is unmasked and equal to c (numpy's masked sum:
\* pixels masked in areas left out, and masked when it leaves out all of them)
C13_AreasOfUnmasked ==
    (fn = "summarize_areas_by_category" /\ fpc # "call") =>
        LET v == args.values
            w == args.areas
            keys == {v.data[k] : k \in Unmasked(v)}
            pixels(c) == {k \in Unmasked(v) : v.data[k] = c}
        IN  /\ fpc = "returned"
            /\ DOMAIN ret = keys
            /\ \A c \in keys :
                  IF pixels(c) \cap Unmasked(w) = {} THEN ret[c] = MaskedConstant
                  ELSE ret[c] = Scalar(SumOver(w.data, pixels(c) \cap Unmasked(w)))

\* a category is held under a masked pixel and under unmasked ones, and its
\* entry is the area of the unmasked ones alone
C13_Witness ==
    /\ fn = "summarize_areas_by_category"
    /\ fpc = "returned"
    /\ args.values.data = <<1, 1, 0>>
    /\ args.values.hasmask /\ args.values.mask = <<TRUE, FALSE, FALSE>>
    /\ args.areas.data = <<2, 1, 2>>
    /\ ret = (0 :> Scalar(2)) @@ (1 :> Scalar(1))

\* --------------------------------------------------- statistic_by_interval
MaxInterval == 4     \* intervals are 0..MaxInterval

\* int(a / b) for a >= 0: the quotient truncated toward zero
IntDiv(a, b) == IF b > 0 THEN a \div b ELSE -(a \div (-b))

\* mutant of WindowCells: windows that slide by one step
WindowCellsSliding(s, interval, k, i, j) ==
    {((k + m) * s[2] + i) * s[3] + j + 1 : m \in 0..(interval - 1)}

\* the flat positions (1-based, row-major) of temp[k, :interval, i, j], temp
\* being values.reshape(num_intervals, interval, shape[1], shape[2])
WindowCells(s, interval, k, i, j) ==
    {((k * interval + m) * s[2] + i) * s[3] + j + 1 : m \in 0..(interval - 1)}

\* temp[:, :interval, :, :].mean(axis=1) or .sum(axis=1), as a flat array of
\* the shape (num_intervals, shape[1], shape[2])
ReduceWindows(vals, num_intervals, interval, statistic) ==
    LET s == vals.shape
        mask == IF vals.hasmask THEN vals.mask ELSE [c \in DOMAIN vals.data |-> FALSE]
        cell(p) == MaskedReduce(statistic, vals.data, mask,
                       WindowCells(s, interval, (p - 1) \div (s[2] * s[3]),
                                   ((p - 1) \div s[3]) % s[2], (p - 1) % s[3]))
    IN  [shape |-> <<num_intervals, s[2], s[3]>>,
         data |-> [p \in 1..(num_intervals * s[2] * s[3]) |-> cell(p)]]

\* lines 99-112; optimize: the interpreter runs without assert statements
statistic_by_interval(vals, interval, statistic, optimize) ==
    LET raise(e) == [err |-> e, results |-> <<>>]
        s == vals.shape
    IN  IF statistic \notin {"mean", "sum"} THEN raise("ValueError")
        ELSE IF ~optimize /\ Len(s) # 3 THEN raise("AssertionError")
        ELSE IF interval = 0 THEN raise("ZeroDivisionError")
        ELSE IF ~optimize /\ s[1] % interval # 0 THEN raise("AssertionError")
        ELSE LET num_intervals == IntDiv(s[1], interval)
             IN  IF num_intervals * interval * s[2] * s[3] # Size(s)
                 THEN raise("ValueError")     \* reshape to another size
                 ELSE [err |-> "",
                       results |-> ReduceWindows(vals, num_intervals, interval, statistic)]

StatisticByInterval ==
    /\ fpc = "call"
    /\ fn = "statistic_by_interval"
    /\ FnFinish(statistic_by_interval(args.values, args.interval, args.statistic,
                                      args.optimize))

\* 3D arrays: several steps of one pixel, two steps of two pixels, an empty grid
IntervalShapes == {<<4, 1, 1>>, <<3, 1, 1>>, <<2, 1, 2>>, <<2, 2, 1>>, <<3, 0, 1>>}

InitStatisticByInterval ==
    \E s \in IntervalShapes, n \in 0..MaxInterval, st \in {"mean", "sum", "max"},
       o \in BOOLEAN :
        \E a \in {x \in ArraysOf(s) : ~x.hasmask} :
            FnCall("statistic_by_interval",
                   [values |-> a, interval |-> n, statistic |-> st, optimize |-> o])

\* values[t, i, j], indices from 0
At3(a, t, i, j) == a.data[(t * a.shape[2] + i) * a.shape[3] + j + 1]

RECURSIVE SumSteps(_, _, _, _, _)
\* values[from, i, j] + ... + values[from + n - 1, i, j]
SumSteps(a, from, n, i, j) ==
    IF n = 0 THEN 0 ELSE At3(a, from, i, j) + SumSteps(a, from + 1, n - 1, i, j)

\* a call with an interval > 0 that divides the number of steps
DividesSteps ==
    /\ fn = "statistic_by_interval"
    /\ args.interval > 0
    /\ args.values.shape[1] % args.interval = 0

\* C14: for an interval that divides T the sum has shape (T/interval, H, W)
\* and its element [k, i, j] is values[k*interval, i, j] + ... +
\* values[k*interval + interval - 1, i, j]; the output steps together hold
\* every input step once
C14_SumOfWindows ==
    (DividesSteps /\ args.statistic = "sum" /\ fpc # "call") =>
        LET v == args.values
            n == args.interval
            T == v.shape[1]
            H == v.shape[2]
            W == v.shape[3]
        IN  /\ fpc = "returned"
            /\ ret.shape = <<T \div n, H, W>>
            /\ Len(ret.data) = (T \div n) * H * W
            /\ \A k \in 0..((T \div n) - 1), i \in 0..(H - 1), j \in 0..(W - 1) :
                  ret.data[(k * H + i) * W + j + 1] = Scalar(SumSteps(v, k * n, n, i, j))
            /\ SumTo([p \in DOMAIN ret.data |-> ret.data[p].num], Len(ret.data))
                  = SumTo(v.data, Len(v.data))

\* four steps summed in two windows of two
C14_Witness ==
    /\ DividesSteps
    /\ fpc = "returned"
    /\ args.statistic = "sum"
    /\ args.interval = 2
    /\ args.values.data = <<1, 2, 2, 2>>
    /\ ret = [shape |-> <<2, 1, 1>>, data |-> <<Scalar(3), Scalar(4)>>]

\* a call with an interval that does not divide the number of steps
Indivisible ==
    /\ fn = "statistic_by_interval"
    /\ args.statistic \in {"mean", "sum"}
    /\ args.interval > 0
    /\ args.values.shape[1] % args.interval # 0

\* C15 as stated: such a call raises ValueError
C15_RaisesValueError ==
    (Indivisible /\ fpc # "call") => (fpc = "raised" /\ ferror = "ValueError")

\* such a call raises, AssertionError or with assert statements off the
\* ValueError of reshape, unless the grid has no pixel
C15_RaisesUnlessEmpty ==
    (Indivisible /\ fpc # "call") =>
        IF Size(args.values.shape) = 0 /\ args.optimize
        THEN fpc = "returned" /\ ret.data = <<>>
        ELSE /\ fpc = "raised"
             /\ ferror = (IF args.optimize THEN "ValueError" ELSE "AssertionError")

\* ------------------------------------------------- cli/calc.py, bin_ts
\* for one file and its variable: args.var is [dtype, arr], the variable's
\* type ("f8" or "i4") and its data; locals holds num_intervals, the loop
\* index i, whether the warning was echoed, and the steps written to out_var
\* (flat, step after step)

\* subset.mean(axis=0) or subset.sum(axis=0), subset = var_obj[lo:hi]: one value
\* per pixel, over the steps lo..hi-1 that exist
SubsetReduce(arr, lo, hi, statistic) ==
    LET hw == arr.shape[2] * arr.shape[3]
        mask == IF arr.hasmask THEN arr.mask ELSE [c \in DOMAIN arr.data |-> FALSE]
    IN  [p \in 1..hw |->
            MaskedReduce(statistic, arr.data, mask,
                         {t * hw + p : t \in {u \in lo..(hi - 1) : u < arr.shape[1]}})]

\* out_var[i] = x: netCDF4 casts the data to the variable's type, a float
\* written to an integer variable loses its fraction
CastTo(dt, x) ==
    IF x.masked \/ dt = "f8" THEN x
    ELSE IF x.num >= 0 THEN Scalar(x.num \div x.den)
    ELSE Scalar(-((-x.num) \div x.den))

\* lines 72-100: the interval and the variable are checked, the
\* number of intervals computed and the warning echoed
BinStart ==
    /\ fpc = "call"
    /\ fn = "bin_ts"
    /\ IF ~(args.interval > 0)
       THEN fpc' = "raised" /\ ferror' = "BadParameter" /\ locals' = locals
       ELSE IF Len(args.var.arr.shape) # 3
       THEN fpc' = "raised" /\ ferror' = "BadParameter" /\ locals' = locals
       ELSE /\ fpc' = "loop"
            /\ ferror' = ferror
            /\ locals' = [num_intervals |-> args.var.arr.shape[1] \div args.interval,
                          warned |-> args.var.arr.shape[1] % args.interval # 0,
                          i |-> 0,
                          out |-> <<>>]
    /\ UNCHANGED <<fn, args, ret>>
    /\ UNCHANGED <<evars, zvars, cvars>>

\* lines 123-129: one iteration of the loop over range(num_intervals)
BinStep ==
    /\ fpc = "loop"
    /\ fn = "bin_ts"
    /\ locals.i < locals.num_intervals
    /\ LET subset == SubsetReduce(args.var.arr, locals.i * args.interval,
                                  (locals.i + 1) * args.interval, args.statistic)
           written == [p \in DOMAIN subset |-> CastTo(args.var.dtype, subset[p])]
       IN  locals' = [locals EXCEPT !.i = @ + 1, !.out = @ \o written]
    /\ UNCHANGED <<fn, args, fpc, ret, ferror>>
    /\ UNCHANGED <<evars, zvars, cvars>>

\* the loop ends and the output dataset is closed
BinDone ==
    /\ fpc = "loop"
    /\ fn = "bin_ts"
    /\ locals.i >= locals.num_intervals
    /\ fpc' = "returned"
    /\ ret' = [steps |-> locals.num_intervals, data |-> locals.out,
               warned |-> locals.warned]
    /\ UNCHANGED <<fn, args, locals, ferror>>
    /\ UNCHANGED <<evars, zvars, cvars>>

BinShapes == {<<4, 1, 1>>, <<3, 1, 1>>, <<2, 1, 2>>, <<1, 1, 1>>}

InitBinTs ==
    \E s \in BinShapes, n \in 0..MaxInterval, st \in {"mean", "sum"},
       dt \in {"f8", "i4"} :
        \E a \in {x \in ArraysOf(s) : x.kind = "ma" /\ ~x.hasmask} :
            FnCall("bin_ts", [var |-> [dtype |-> dt, arr |-> a],
                              interval |-> n, statistic |-> st])

\* the first m steps of a 3D array
FirstSteps(a, m) ==
    [a EXCEPT !.shape = <<m, a.shape[2], a.shape[3]>>,
              !.data = SubSeq(a.data, 1, m * a.shape[2] * a.shape[3])]

\* two statistic values are the same number
SameNumber(x, y) == x.masked = y.masked /\ x.num * y.den = y.num * x.den

\* the output bin_ts wrote is statistic_by_interval of the full intervals
BinsAsByInterval ==
    LET a == args.var.arr
        n == args.interval
        full == a.shape[1] \div n
        expected == statistic_by_interval(FirstSteps(a, full * n), n,
                                          args.statistic, FALSE)
    IN  /\ expected.err = ""
        /\ ret.steps = full
        /\ Len(ret.data) = Len(expected.results.data)
        /\ \A p \in DOMAIN ret.data : SameNumber(ret.data[p], expected.results.data[p])
        /\ ret.warned = (a.shape[1] % n # 0)

\* C16 as stated: with interval n > 0 the command does not fail, and what it
\* wrote is floor(T/n) steps, those of statistic_by_interval applied to the
\* first floor(T/n)*n input steps, with the warning exactly when n does not
\* divide T
C16_DropAndWarn ==
    (fn = "bin_ts" /\ args.interval > 0) =>
        /\ fpc # "raised"
        /\ fpc = "returned" => BinsAsByInterval

\* the same for sums and for variables of a floating type
C16_ExceptIntegerMean ==
    (fn = "bin_ts" /\ args.interval > 0
        /\ (args.statistic = "sum" \/ args.var.dtype = "f8")) =>
        /\ fpc # "raised"
        /\ fpc = "returned" => BinsAsByInterval

\* --------- analysis/timeseries.py, extract_categorical_timeseries_by_area
\* (window is None); locals holds the position k in timestep_indicies of the
\* next index and the results dictionary, category -> series

\* values[index].ravel(), index from 0
StepOf(a, t) ==
    LET hw == a.shape[2] * a.shape[3]
    IN  [kind |-> a.kind, shape |-> <<hw>>,
         data |-> SubSeq(a.data, t * hw + 1, (t + 1) * hw),
         hasmask |-> a.hasmask,
         mask |-> IF a.hasmask THEN SubSeq(a.mask, t * hw + 1, (t + 1) * hw) ELSE <<>>]

\* line 38: numpy.ma.masked_array(data, mask=areas.mask)
WithMaskOf(data, areas) ==
    LET m == MaskedArrayOf(data, IF areas.hasmask
                                 THEN [shape |-> areas.shape, flat |-> areas.mask]
                                 ELSE [shape |-> <<>>, flat |-> <<FALSE>>])
    IN  [err |-> m.err,
         arr |-> [kind |-> "ma", shape |-> data.shape, data |-> data.data,
                  hasmask |-> TRUE, mask |-> m.mask]]

\* numpy.zeros(n)
Zeros(n) == [p \in 1..n |-> Scalar(0)]

\* lines 40-43: the categories of one timestep entered in results; the entry
\* is written at position idx of the series (0-based), idx the time index
EnterSummary(res, summary, idx, num_timesteps) ==
    IF summary = EmptyDict THEN [err |-> "", results |-> res]
    ELSE IF idx >= num_timesteps THEN [err |-> "IndexError", results |-> res]
    ELSE [err |-> "",
          results |-> [c \in DOMAIN res \cup DOMAIN summary |->
              LET series == IF c \in DOMAIN res THEN res[c] ELSE Zeros(num_timesteps)
              IN  IF c \in DOMAIN summary
                  THEN [series EXCEPT ![idx + 1] = summary[c]]
                  ELSE series]]

\* lines 31-43: one iteration of the loop over timestep_indicies
TsStep ==
    /\ fpc \in {"call", "loop"}
    /\ fn = "extract_categorical_timeseries_by_area"
    /\ LET k == IF fpc = "call" THEN 1 ELSE locals.k
           res == IF fpc = "call" THEN EmptyDict ELSE locals.results
           num_timesteps == Len(args.timestep_indicies)
       IN  /\ k <= num_timesteps
           /\ LET idx == args.timestep_indicies[k]
                  data == WithMaskOf(StepOf(args.values, idx), args.areas)
                  summary == summarize_areas_by_category(data.arr, args.areas)
                  entered == EnterSummary(res, summary.results, idx, num_timesteps)
                  err == IF data.err # "" THEN data.err
                         ELSE IF summary.err # "" THEN summary.err
                         ELSE entered.err
              IN  IF err # ""
                  THEN fpc' = "raised" /\ ferror' = err /\ locals' = locals
                  ELSE /\ fpc' = "loop"
                       /\ ferror' = ferror
                       /\ locals' = [k |-> k + 1, results |-> entered.results]
    /\ UNCHANGED <<fn, args, ret>>
    /\ UNCHANGED <<evars, zvars, cvars>>

\* line 44
TsReturn ==
    /\ fpc \in {"call", "loop"}
    /\ fn = "extract_categorical_timeseries_by_area"
    /\ (IF fpc = "call" THEN 1 ELSE locals.k) > Len(args.timestep_indicies)
    /\ fpc' = "returned"
    /\ ret' = (IF fpc = "call" THEN EmptyDict ELSE locals.results)
    /\ UNCHANGED <<fn, args, locals, ferror>>
    /\ UNCHANGED <<evars, zvars, cvars>>

MaxSteps == 2        \* timestep_indicies holds at most MaxSteps indices

\* values of three steps of one pixel with any areas array, and of two steps
\* of two pixels with areas 1 and 2, the first masked or not
InitTimeseries ==
    \E s \in {<<3, 1, 1>>, <<2, 1, 2>>} :
      \E v \in {x \in CategoryArraysOf(s) : x.kind = "ndarray"},
         w \in {x \in ArraysOf(<<s[2] * s[3]>>) : x.kind = "ma"},
         ts \in SeqsUpTo(0..(s[1] - 1), MaxSteps) :
        /\ Size(w.shape) > 1 => (w.data = <<1, 2>> /\ w.hasmask /\ ~w.mask[2])
        /\ FnCall("extract_categorical_timeseries_by_area",
                  [values |-> v, areas |-> w, timestep_indicies |-> ts])

\* the pixels that hold category c at time index t and are not masked in areas
PixelsOf(c, t) ==
    LET hw == Len(args.areas.data)
    IN  {p \in Unmasked(args.areas) : args.values.data[t * hw + p] = c}

\* the categories found at a requested timestep
FoundCategories ==
    LET hw == Len(args.areas.data)
        ts == args.timestep_indicies
    IN  {args.values.data[ts[k] * hw + p] : k \in DOMAIN ts, p \in Unmasked(args.areas)}

\* every category found has a series with one entry per requested timestep,
\* its area at that timestep, 0 where it does not occur
FullSeries ==
    LET ts == args.timestep_indicies
    IN  /\ fpc = "returned"
        /\ DOMAIN ret = FoundCategories
        /\ \A c \in FoundCategories :
              /\ Len(ret[c]) = Len(ts)
              /\ \A k \in DOMAIN ts :
                    ret[c][k] = Scalar(SumOver(args.areas.data, PixelsOf(c, ts[k])))

\* C17 as stated: for every list of valid time indices the call returns such
\* series
C17_FullSeries ==
    (fn = "extract_categorical_timeseries_by_area" /\ fpc \in {"returned", "raised"})
        => FullSeries

\* the same for the lists 0, 1, .., n-1
C17_FromZeroInOrder ==
    (fn = "extract_categorical_timeseries_by_area" /\ fpc \in {"returned", "raised"}
        /\ \A k \in DOMAIN args.timestep_indicies : args.timestep_indicies[k] = k - 1)
        => FullSeries

\* -------------------------------------------- calculate_weighted_statistics
\* mutant of UnsupportedWeighted: the zonal engine's lower-case names pass
UnsupportedWeightedAnyCase(stats) ==
    SeqToSet(stats) \ {"MEAN", "STD", "mean", "std"}

\* lines 70-71: set(statistics).difference(supported_statistics)
UnsupportedWeighted(stats) == SeqToSet(stats) \ {"MEAN", "STD"}

\* the mask of an array as an array: nomask is False everywhere
MaskArray(a) == IF a.hasmask THEN a.mask ELSE [k \in DOMAIN a.data |-> FALSE]

\* line 76: values * weights of two masked arrays of one shape; the product
\* is masked where either operand is
Product(a, b) ==
    [kind |-> "ma", shape |-> a.shape,
     data |-> [k \in DOMAIN a.data |-> a.data[k] * b.data[k]],
     hasmask |-> a.hasmask \/ b.hasmask,
     mask |-> IF a.hasmask \/ b.hasmask
              THEN [k \in DOMAIN a.data |-> MaskArray(a)[k] \/ MaskArray(b)[k]]
              ELSE <<>>]

\* mutant of DenominatorMask: the mask of the weights alone
DenominatorMaskOfWeights(a, w) == MaskArray(w)

\* line 80: weights.mask + values.mask
DenominatorMask(a, w) == [k \in DOMAIN w.data |-> MaskArray(w)[k] \/ MaskArray(a)[k]]

\* x / y of two results of sum(): masked when either is, or when y is 0
Quotient(x, y) ==
    IF x.masked \/ y.masked \/ y.num = 0 THEN MaskedConstant
    ELSE Ratio(x.num * y.den, x.den * y.num)

\* lines 78-82: what one requested name appends to results
WeightedResult(name, a, w, weighted_values) ==
    IF name = "MEAN"
    THEN LET m == MaskedArrayOf(w, [shape |-> w.shape, flat |-> DenominatorMask(a, w)])
         IN  <<Quotient(MaskedReduce("sum", weighted_values.data,
                                     MaskArray(weighted_values), DOMAIN a.data),
                        MaskedReduce("sum", w.data, m.mask, DOMAIN w.data))>>
    ELSE IF name = "STD"
    THEN <<MaskedReduce("std", weighted_values.data, MaskArray(weighted_values),
                        DOMAIN a.data)>>
    ELSE <<>>

RECURSIVE WeightedResults(_, _, _, _)
\* lines 75-84: the results of the requested names, in order
WeightedResults(stats, a, w, weighted_values) ==
    IF stats = <<>> THEN <<>>
    ELSE WeightedResult(Head(stats), a, w, weighted_values)
            \o WeightedResults(Tail(stats), a, w, weighted_values)

\* lines 70-84
calculate_weighted_statistics(a, w, stats) ==
    IF UnsupportedWeighted(stats) # {}
    THEN [err |-> "ValueError", results |-> <<>>]
    ELSE [err |-> "", results |-> WeightedResults(stats, a, w, Product(a, w))]

WeightedStatistics ==
    /\ fpc = "call"
    /\ fn = "calculate_weighted_statistics"
    /\ FnFinish(calculate_weighted_statistics(args.values, args.weights, args.statistics))

WeightedRequests ==
    { <<>>, <<"MEAN">>, <<"STD">>, <<"MEAN", "STD">>, <<"STD", "MEAN">>,
      <<"MEAN", "MEAN">>, <<"mean">>, <<"MEAN", "std">>, <<"STD", "SUM">> }

WeightData == {<<1, 1, 1>>, <<2, 1, 2>>}

\* masked arrays of three pixels, with a mask array or without
InitWeightedStatistics ==
    \E a \in {x \in ArraysOf(<<3>>) : x.kind = "ma"},
       w \in {x \in ArraysOf(<<3>>) : x.kind = "ma" /\ x.data \in WeightData},
       st \in WeightedRequests :
        FnCall("calculate_weighted_statistics",
               [values |-> a, weights |-> w, statistics |-> st])

\* the pixels unmasked in values and in weights
BothUnmasked == Unmasked(args.values) \cap Unmasked(args.weights)

\* sum(values * weights) / sum(weights) over the pixels unmasked in both
MeanOverBoth ==
    IF BothUnmasked = {} THEN MaskedConstant
    ELSE Ratio(SumOver([k \in DOMAIN args.values.data |->
                           args.values.data[k] * args.weights.data[k]], BothUnmasked),
               SumOver(args.weights.data, BothUnmasked))

\* C18: every MEAN returned is N/D, N the sum of values*weights and D the sum
\* of weights over the pixels unmasked in both values and weights (masked when
\* there is no such pixel)
C18_MeanOverBothUnmasked ==
    (fn = "calculate_weighted_statistics" /\ fpc = "returned") =>
        \A k \in DOMAIN args.statistics :
            args.statistics[k] = "MEAN" =>
                /\ k \in DOMAIN ret
                /\ SameNumber(ret[k], MeanOverBoth)

\* one pixel masked in values only, one in weights only, one in neither
C18_Witness ==
    /\ fn = "calculate_weighted_statistics"
    /\ fpc = "returned"
    /\ args.statistics = <<"MEAN">>
    /\ args.values.hasmask /\ args.values.mask = <<TRUE, FALSE, FALSE>>
    /\ args.weights.hasmask /\ args.weights.mask = <<FALSE, TRUE, FALSE>>
    /\ args.values.data = <<1, 1, 2>>
    /\ args.weights.data = <<2, 1, 2>>
    /\ ret = <<Ratio(4, 2)>>

\* C19: a request with a name other than MEAN and STD raises ValueError and
\* returns nothing; any other request returns one result per requested name,
\* in the order requested
C19_UpperCaseOnly ==
    (fn = "calculate_weighted_statistics" /\ fpc # "call") =>
        IF \E k \in DOMAIN args.statistics : args.statistics[k] \notin {"MEAN", "STD"}
        THEN fpc = "raised" /\ ferror = "ValueError" /\ ret = <<>>
        ELSE /\ fpc = "returned"
             /\ Len(ret) = Len(args.statistics)
             /\ \A k \in DOMAIN args.statistics :
                   IF args.statistics[k] = "MEAN"
                   THEN SameNumber(ret[k], MeanOverBoth)
                   ELSE ret[k] = MaskedReduce("std",
                            [p \in DOMAIN args.values.data |->
                                args.values.data[p] * args.weights.data[p]],
                            [p \in DOMAIN args.values.data |-> p \notin BothUnmasked],
                            DOMAIN args.values.data)

\* the zonal engine's name is refused; a request of both names is answered
\* in its order
C19_Witness ==
    /\ fn = "calculate_weighted_statistics"
    /\ fpc = "raised"
    /\ ferror = "ValueError"
    /\ args.statistics = <<"mean">>

C19_OrderWitness ==
    /\ fn = "calculate_weighted_statistics"
    /\ fpc = "returned"
    /\ args.statistics = <<"STD", "MEAN">>
    /\ args.values.data = <<1, 1, 2>> /\ ~args.values.hasmask
    /\ args.weights.data = <<1, 1, 1>> /\ ~args.weights.hasmask
    /\ ret = <<Ratio(2, 9), Ratio(4, 3)>>

\* ----------------- netcdf/variable.py, SpatialCoordinateVariables.affine
\* Coordinates are integers in a unit that makes every pixel size even, so
\* that half a pixel is exact; a coordinate variable is the sequence of its
\* values, the centres of the pixels.
MaxCoords == 3       \* an axis has 2..MaxCoords coordinates

Abs(x) == IF x < 0 THEN -x ELSE x

\* CoordinateVariable.is_ascending_order (line 45)
is_ascending_order(v) == v[1] < v[2]

\* SpatialCoordinateVariable.pixel_size (line 215)
pixel_size(v) == Abs(v[2] - v[1])

\* SpatialCoordinateVariable.min and .max (lines 207, 211)
CoordMin(v) == MinOver(v, DOMAIN v)
CoordMax(v) == MaxOver(v, DOMAIN v)

\* SpatialCoordinateVariables.bbox (lines 264-275)
bbox(x, y) ==
    [xmin |-> CoordMin(x) - pixel_size(x) \div 2,
     ymin |-> CoordMin(y) - pixel_size(y) \div 2,
     xmax |-> CoordMax(x) + pixel_size(x) \div 2,
     ymax |-> CoordMax(y) + pixel_size(y) \div 2]

\* mutant of YOrigin: the ymin edge in both orderings
YOriginAtMin(x, y) == bbox(x, y).ymin

\* line 287: the y origin of the transform
YOrigin(x, y) == IF is_ascending_order(y) THEN bbox(x, y).ymin ELSE bbox(x, y).ymax

\* SpatialCoordinateVariables.affine (lines 279-288): Affine(a, b, c, d, e, f)
affine(x, y) ==
    [a |-> pixel_size(x),
     b |-> 0,
     c |-> bbox(x, y).xmin,
     d |-> 0,
     e |-> y[2] - y[1],
     f |-> YOrigin(x, y)]

\* the transform applied to the centre (col + 1/2, row + 1/2) of a pixel:
\* (a*x + b*y + c, d*x + e*y + f), the coefficients of x and y being even
AtCentre(t, col, row) ==
    <<t.a * col + t.a \div 2 + t.b * row + t.b \div 2 + t.c,
      t.d * col + t.d \div 2 + t.e * row + t.e \div 2 + t.f>>

Affine ==
    /\ fpc = "call"
    /\ fn = "SpatialCoordinateVariables.affine"
    /\ FnFinish([err |-> "", results |-> affine(args.x, args.y)])

\* the coordinates of a regular axis: n values from first, step apart
RegularAxis(first, step, n) == [k \in 1..n |-> first + (k - 1) * step]

AxisOrigins == {-3, 0, 4}
AxisSteps == {-4, -2, 2, 4}

InitAffine ==
    \E x0 \in AxisOrigins, y0 \in AxisOrigins, sx \in AxisSteps, sy \in AxisSteps,
       nx \in 2..MaxCoords, ny \in 2..MaxCoords :
        FnCall("SpatialCoordinateVariables.affine",
               [x |-> RegularAxis(x0, sx, nx), y |-> RegularAxis(y0, sy, ny)])

\* C20: with ascending x the y-scale term is negative exactly when y is
\* descending, the y origin is the ymax edge when y is descending and the ymin
\* edge when ascending, and the centre of every pixel (row r, column c) is
\* mapped to (x_coords[c], y_coords[r])
C20_CentresOnCoordinates ==
    (fn = "SpatialCoordinateVariables.affine" /\ fpc # "call"
        /\ is_ascending_order(args.x)) =>
        LET x == args.x
            y == args.y
            desc == y[1] > y[2]
        IN  /\ fpc = "returned"
            /\ (ret.e < 0) <=> desc
            /\ ret.f = (IF desc THEN CoordMax(y) + Abs(y[2] - y[1]) \div 2
                        ELSE CoordMin(y) - Abs(y[2] - y[1]) \div 2)
            /\ \A r \in 0..(Len(y) - 1), c \in 0..(Len(x) - 1) :
                  AtCentre(ret, c, r) = <<x[c + 1], y[r + 1]>>

\* a grid of three rows in descending y
C20_Witness ==
    /\ fn = "SpatialCoordinateVariables.affine"
    /\ fpc = "returned"
    /\ args.x = <<0, 2, 4>>
    /\ args.y = <<4, 0, -4>>
    /\ ret = [a |-> 2, b |-> 0, c |-> -1, d |-> 0, e |-> -4, f |-> 6]

\* ------------- netcdf/variable.py, SpatialCoordinateVariables.from_bbox
\* a bounding box is [xmin, ymin, xmax, ymax, projection], projection TRUE
\* when one is set; the pixel sizes of the boxes generated are even integers

\* lines 333-335, 338-340: arange(n) * px + (lo + px / 2)
AscendingCentres(lo, px, n) == [k \in 1..n |-> (k - 1) * px + (lo + px \div 2)]

\* mutant of DescendingCentres: anchored on the edge, not half a pixel inside
DescendingCentresOnEdge(hi, px, n) == [k \in 1..n |-> (-(k - 1)) * px + hi]

\* lines 343-345: arange(0, -n, -1) * px + (hi - px / 2)
DescendingCentres(hi, px, n) == [k \in 1..n |-> (-(k - 1)) * px + (hi - px \div 2)]

\* lines 326-350
from_bbox(b, x_size, y_size, y_ascending) ==
    IF ~b.projection THEN [err |-> "ValueError", results |-> <<>>]
    ELSE LET x_pixel_size == (b.xmax - b.xmin) \div x_size
             y_pixel_size == (b.ymax - b.ymin) \div y_size
         IN  [err |-> "",
              results |->
                 [x |-> AscendingCentres(b.xmin, x_pixel_size, x_size),
                  y |-> IF y_ascending
                        THEN AscendingCentres(b.ymin, y_pixel_size, y_size)
                        ELSE DescendingCentres(b.ymax, y_pixel_size, y_size),
                  projection |-> b.projection]]

\* from_bbox(bbox, x_size, y_size, y_ascending=...).bbox
FromBBox ==
    /\ fpc = "call"
    /\ fn = "SpatialCoordinateVariables.from_bbox"
    /\ LET r == from_bbox(args.bbox, args.x_size, args.y_size, args.y_ascending)
       IN  FnFinish(IF r.err # "" THEN r
                    ELSE [err |-> "",
                          results |-> [coords |-> r.results,
                                       bbox |-> bbox(r.results.x, r.results.y)
                                                  @@ [projection |-> r.results.projection]]])

PixelSizes == {2, 4}

InitFromBBox ==
    \E x0 \in AxisOrigins, y0 \in AxisOrigins, px \in PixelSizes, py \in PixelSizes,
       nx \in 2..MaxCoords, ny \in 2..MaxCoords, asc \in BOOLEAN, proj \in BOOLEAN :
        FnCall("SpatialCoordinateVariables.from_bbox",
               [bbox |-> [xmin |-> x0, ymin |-> y0, xmax |-> x0 + nx * px,
                          ymax |-> y0 + ny * py, projection |-> proj],
                x_size |-> nx, y_size |-> ny, y_ascending |-> asc])

\* the grid built has the box it was built from
SameBBox ==
    /\ fpc = "returned"
    /\ ret.bbox = args.bbox
    /\ Len(ret.coords.x) = args.x_size
    /\ Len(ret.coords.y) = args.y_size
    /\ is_ascending_order(ret.coords.y) = args.y_ascending

\* C21 as stated: for every bounding box the grid built from it has that
\* bounding box
C21_EveryBBox ==
    (fn = "SpatialCoordinateVariables.from_bbox" /\ fpc # "call") => SameBBox

\* C21: for every bounding box that has a projection the grid built from it has
\* that bounding box, in descending and in ascending y; for a box without a
\* projection from_bbox raises ValueError
C21_BBoxWithProjection ==
    (fn = "SpatialCoordinateVariables.from_bbox" /\ fpc # "call") =>
        IF args.bbox.projection THEN SameBBox
        ELSE fpc = "raised" /\ ferror = "ValueError"

\* three rows in descending y
C21_Witness ==
    /\ fn = "SpatialCoordinateVariables.from_bbox"
    /\ fpc = "returned"
    /\ ~args.y_ascending
    /\ args.bbox = [xmin |-> -3, ymin |-> 0, xmax |-> 1, ymax |-> 12, projection |-> TRUE]
    /\ ret.coords.x = <<-2, 0>>
    /\ ret.coords.y = <<10, 6, 2>>
    /\ ret.bbox = args.bbox

\* ------------------------------- zonal_stats: the output is written last
\* the keys under which the results of variable k of file f are stored
ResultKeysOf(f, k) ==
    LET name == VariableList(files[f], var_option)[k]
    IN  IF num_dimensions = 3
        THEN {<<f, name, z_values[z]>> : z \in 1..shape[1]}
        ELSE {<<f, name, 0>>}

\* every variable of every file has been looked at and has its statistics
AllComputed ==
    /\ file_i = Len(files)
    /\ Len(files) >= 1
    /\ \A f \in 1..Len(files) :
          /\ MissingVariables(files[f], var_option) = {}
          /\ \A k \in DOMAIN VariableList(files[f], var_option) :
                /\ VarNamed(files[f], VariableList(files[f], var_option)[k]).dims = dimensions
                /\ ResultKeysOf(f, k) \subseteq DOMAIN cli_results

\* the errors of validation and of computation
ValidationErrors == {"BadParameter", "UsageError"}
ComputationErrors == {"ValueError", "MaskError", "AttributeError", "IndexError"}

\* C22: in the zonal_stats command the output file exists or is changed only
\* when every file and variable has been validated and has its statistics; when
\* an unsupported statistic, a missing variable, a mismatch of dimensions or an
\* error of the computation is raised, the output file is untouched
C22_OutputWrittenLast ==
    /\ (cpc # "idle" /\ output # "absent") => AllComputed
    /\ (cpc = "raised" /\ cerror \in ValidationErrors \cup ComputationErrors) =>
           (output = "absent" /\ "output" \notin SeqToSet(opened))

\* the second of two files fails validation after the first was computed
C22_Witness ==
    /\ cpc = "raised"
    /\ cerror = "UsageError"
    /\ Len(files) = 2
    /\ file_i = 1
    /\ DOMAIN cli_results # {}
    /\ output = "absent"

\* a run that reaches the output
C22_WrittenWitness ==
    /\ cpc = "done"
    /\ Len(files) = 2
    /\ num_dimensions = 3
    /\ output = "written"
    /\ AllComputed

\* ------------------- netcdf/variable.py, CoordinateVariable range functions
\* coordinates are integers, on which numpy.isclose is equality; indices are
\* numpy's, counted from 0

Min2(a, b) == IF a <= b THEN a ELSE b

\* values.searchsorted(x) on ascending values: how many of them are below x
searchsorted(v, x) == Cardinality({k \in DOMAIN v : v[k] < x})

\* values[::-1]
Reversed(v) == [k \in DOMAIN v |-> v[Len(v) + 1 - k]]

\* numpy.isclose(x, y)
isclose(x, y) == x = y

\* lines 62-72 and 76-83: the start and stop index in ascending values
AscendingIndices(v, start, stop) ==
    LET size == Len(v)
        s0 == Min2(searchsorted(v, start), size - 1)
        start_index == IF s0 > 0 /\ ~isclose(start, v[s0 + 1]) THEN s0 - 1 ELSE s0
        t0 == Min2(searchsorted(v, stop), size - 1)
        stop_index == IF ~isclose(stop, v[t0 + 1]) /\ stop < v[t0 + 1] THEN t0 - 1 ELSE t0
    IN  <<start_index, stop_index>>

\* lines 47-87
indices_for_range(v, start, stop) ==
    IF ~(stop > start) THEN [err |-> "AssertionError", results |-> <<>>]
    ELSE IF start > CoordMax(v) THEN [err |-> "", results |-> <<Len(v) - 1, Len(v) - 1>>]
    ELSE IF stop < CoordMin(v) THEN [err |-> "", results |-> <<0, 0>>]
    ELSE IF is_ascending_order(v)
    THEN [err |-> "", results |-> AscendingIndices(v, start, stop)]
    ELSE LET ij == AscendingIndices(Reversed(v), start, stop)
             size == Len(v) - 1
         IN  [err |-> "", results |-> <<Max2(size - ij[2], 0), Max2(size - ij[1], 0)>>]

\* values[i:j]: a slice of numpy, bounds counted from 0 and clipped, i, j >= 0
SliceFromTo(v, i, j) ==
    LET hi == Min2(j, Len(v))
    IN  IF i >= hi THEN <<>> ELSE SubSeq(v, i + 1, hi)

\* lines 89-102
slice_by_range(v, start, stop) ==
    IF ~(stop > start) THEN [err |-> "AssertionError", results |-> <<>>]
    ELSE IF start >= CoordMax(v) \/ stop <= CoordMin(v) THEN [err |-> "", results |-> <<>>]
    ELSE LET ij == indices_for_range(v, start, stop).results
         IN  [err |-> "", results |-> SliceFromTo(v, ij[1], ij[2] + 1)]

IndicesForRange ==
    /\ fpc = "call"
    /\ fn = "CoordinateVariable.indices_for_range"
    /\ FnFinish(indices_for_range(args.values, args.start, args.stop))

SliceByRange ==
    /\ fpc = "call"
    /\ fn = "CoordinateVariable.slice_by_range"
    /\ FnFinish(slice_by_range(args.values, args.start, args.stop))

\* coordinates lie in 0..MaxCoords + 1, range ends one step beyond them
CoordValues == 0..(MaxCoords + 1)
RangeEnds == (-1)..(MaxCoords + 2)

\* strictly ascending and strictly descending coordinates, two or more
MonotonicCoords ==
    LET asc == {v \in UNION {[1..n -> CoordValues] : n \in 2..MaxCoords} :
                   \A k \in 1..(Len(v) - 1) : v[k] < v[k + 1]}
    IN  asc \cup {Reversed(v) : v \in asc}

InitRange ==
    \E f \in {"CoordinateVariable.indices_for_range", "CoordinateVariable.slice_by_range"},
       v \in MonotonicCoords, start \in RangeEnds, stop \in RangeEnds :
        FnCall(f, [values |-> v, start |-> start, stop |-> stop])

RangeCall ==
    /\ fn \in {"CoordinateVariable.indices_for_range", "CoordinateVariable.slice_by_range"}
    /\ fpc # "call"
    /\ args.start < args.stop

\* the positions (from 1) of the coordinates within the range
InRange == {k \in DOMAIN args.values :
               args.start <= args.values[k] /\ args.values[k] <= args.stop}

\* the coordinates within the range are consecutive: the run from lo to hi
RunOf(S) == IF S = {} THEN <<>>
            ELSE SubSeq(args.values, MinOver([k \in S |-> k], S), MaxOver([k \in S |-> k], S))

\* C23: for strictly monotonic coordinates and start < stop, slice_by_range
\* returns in stored order exactly the coordinates v with start <= v <= stop,
\* nothing when there are none, and indices_for_range returns the first and
\* the last index of that run, 0 <= i <= j <= size - 1
C23_ExactlyWithinRange ==
    RangeCall =>
        /\ fpc = "returned"
        /\ fn = "CoordinateVariable.slice_by_range" => ret = RunOf(InRange)
        /\ fn = "CoordinateVariable.indices_for_range" =>
              /\ 0 <= ret[1] /\ ret[1] <= ret[2] /\ ret[2] <= Len(args.values) - 1
              /\ InRange # {} =>
                    /\ ret[1] + 1 = MinOver([k \in InRange |-> k], InRange)
                    /\ ret[2] + 1 = MaxOver([k \in InRange |-> k], InRange)

\* the start and the stop are coordinates, or the start is below all of them,
\* and neither is the extreme coordinate on the side that empties the slice
OnCoordinates ==
    /\ \/ \E k \in DOMAIN args.values : args.values[k] = args.start
       \/ args.start < CoordMin(args.values)
    /\ args.start # CoordMax(args.values)
    /\ args.stop # CoordMin(args.values)

\* what holds of the code: the indices are within bounds and ordered, and for a
\* range that starts on a coordinate the slice and the indices are as claimed
C23_WhenStartOnCoordinate ==
    RangeCall =>
        /\ fpc = "returned"
        /\ fn = "CoordinateVariable.indices_for_range" =>
              0 <= ret[1] /\ ret[1] <= ret[2] /\ ret[2] <= Len(args.values) - 1
        /\ OnCoordinates =>
              /\ fn = "CoordinateVariable.slice_by_range" => ret = RunOf(InRange)
              /\ (fn = "CoordinateVariable.indices_for_range" /\ InRange # {}) =>
                    /\ ret[1] + 1 = MinOver([k \in InRange |-> k], InRange)
                    /\ ret[2] + 1 = MaxOver([k \in InRange |-> k], InRange)

\* a start between two coordinates: the coordinate below it is returned too
C23_BelowStart ==
    /\ fn = "CoordinateVariable.slice_by_range"
    /\ fpc = "returned"
    /\ args = [values |-> <<0, 2, 4>>, start |-> 1, stop |-> 3]
    /\ ret = <<0, 2>>

\* --------------- render/renderers/classified.py, ClassifiedRenderer
\* a colormap is a sequence of [brk, color] with pairwise distinct breaks; the
\* fill value is [given, value], given FALSE for fill_value=None

MaxBreak == 3        \* breaks are 1..MaxBreak, data values 0..MaxBreak + 1

\* renderers/__init__.py line 30: colormap.sort(key=lambda x: x[0])
SortedColormap(colormap) ==
    CHOOSE s \in [DOMAIN colormap -> {colormap[k] : k \in DOMAIN colormap}] :
        /\ {s[k] : k \in DOMAIN s} = {colormap[k] : k \in DOMAIN colormap}
        /\ \A k \in DOMAIN s : k < Len(s) => s[k].brk < s[k + 1].brk

\* numpy.digitize(x, bins) for increasing bins: the i with
\* bins[i-1] <= x < bins[i], which is the number of bins that are <= x
digitize(x, bins) == Cardinality({k \in DOMAIN bins : bins[k] <= x})

\* renderers/__init__.py lines 56-57
mask_fill_value(data, fill_value) ==
    [k \in DOMAIN data |-> fill_value.given /\ data[k] = fill_value.value]

\* classified.py lines 61-68 and renderers/__init__.py lines 59-77: the
\* palette index of every pixel and the colour the palette holds for it
render_image(colormap, fill_value, data) ==
    LET sorted == SortedColormap(colormap)
        breaks == [k \in DOMAIN sorted |-> sorted[k].brk]
        palette == [k \in DOMAIN sorted |-> sorted[k].color] \o <<"background">>
        background_index == Len(sorted)
        mask == mask_fill_value(data, fill_value)
        classified == [k \in DOMAIN data |-> digitize(data[k], breaks) % 256]
        image_data == [k \in DOMAIN data |->
                          IF mask[k] THEN background_index ELSE classified[k]]
    IN  [breaks |-> breaks, mask |-> mask, image_data |-> image_data,
         colors |-> [k \in DOMAIN data |-> palette[image_data[k] + 1]]]

RenderClassified ==
    /\ fpc = "call"
    /\ fn = "ClassifiedRenderer.render_image"
    /\ IF Len(args.colormap) < 2
       THEN FnFinish([err |-> "AssertionError", results |-> <<>>])
       ELSE FnFinish([err |-> "",
                      results |-> render_image(args.colormap, args.fill_value, args.data)])

ColorNames == <<"red", "green", "blue", "white">>

\* colormaps in any order of their breaks, one entry (refused) or more
Colormaps ==
    {[k \in 1..n |-> [brk |-> b[k], color |-> ColorNames[k]]] :
        n \in 1..MaxBreak,
        b \in {c \in [1..MaxBreak -> 1..MaxBreak] : \A i, j \in 1..MaxBreak : i # j => c[i] # c[j]}}

InitRenderClassified ==
    \E cm \in Colormaps, d \in [1..2 -> 0..(MaxBreak + 1)],
       fv \in {[given |-> FALSE, value |-> 0], [given |-> TRUE, value |-> 2]} :
        FnCall("ClassifiedRenderer.render_image",
               [colormap |-> cm, fill_value |-> fv, data |-> d])

Rendered == fn = "ClassifiedRenderer.render_image" /\ fpc = "returned"

\* the colour the colormap gives to the break b
ColorOfBreak(b) ==
    (CHOOSE e \in {args.colormap[k] : k \in DOMAIN args.colormap} : e.brk = b).color

BreaksOf == {args.colormap[k].brk : k \in DOMAIN args.colormap}

\* the smallest element of a non-empty set of integers
Least(S) == CHOOSE m \in S : \A x \in S : m <= x

\* C24: every unmasked value v gets the colour of the first break b, in
\* ascending order of the breaks, with v <= b; a value equal to a break, the
\* largest included, gets the colour of that break
C24_FirstBreakAtLeast ==
    Rendered =>
        \A k \in DOMAIN args.data :
            (~ret.mask[k] /\ \E b \in BreaksOf : args.data[k] <= b) =>
                ret.colors[k] = ColorOfBreak(Least({b \in BreaksOf : args.data[k] <= b}))

\* what holds of the code: an unmasked value gets the colour of the first
\* break strictly above it, and the background when no break is above it
C24_FirstBreakAbove ==
    Rendered =>
        \A k \in DOMAIN args.data :
            ~ret.mask[k] =>
                ret.colors[k] =
                    IF \E b \in BreaksOf : args.data[k] < b
                    THEN ColorOfBreak(Least({b \in BreaksOf : args.data[k] < b}))
                    ELSE "background"

\* a value equal to the largest break is drawn in the background colour
C24_LargestBreak ==
    /\ Rendered
    /\ ret.breaks = <<1, 3>>
    /\ args.data = <<3, 1>>
    /\ ret.colors[1] = "background"
    /\ ret.colors[2] = ColorOfBreak(3)

\* ------------------------------- clover/netcdf/utilities.py, copy_variable
\* a dataset is [dimensions, variables]: dimensions maps a name to
\* [size, unlimited], variables maps a name to [dimensions, written], written
\* TRUE once data has been assigned to the variable

\* del d[k]
DictDel(d, k) == [x \in (DOMAIN d) \ {k} |-> d[x]]

\* lines 37-62 with the defaults overwrite=True, allow_unlimited=False
copy_dimension(source_dataset, target_dataset, name) ==
    [target_dataset EXCEPT !.dimensions =
        DictSet(target_dataset.dimensions, name,
                [size |-> source_dataset.dimensions[name].size, unlimited |-> FALSE])]

\* line 106, target_variable[:] = source_variable[:]: an unlimited dimension
\* grows, a fixed one takes data of its length or data to broadcast
Assignable(source_dataset, target_dataset, dims) ==
    \A k \in DOMAIN dims :
        \/ target_dataset.dimensions[dims[k]].unlimited
        \/ target_dataset.dimensions[dims[k]].size = source_dataset.dimensions[dims[k]].size
        \/ source_dataset.dimensions[dims[k]].size = 1

\* lines 93-94
DimensionAccepted(source_dimension, target_dimension) ==
    \/ target_dimension.size = source_dimension.size
    \/ target_dimension.unlimited = source_dimension.unlimited

RECURSIVE copy_variable(_, _, _, _)
RECURSIVE CopyDimensions(_, _, _, _)

\* lines 89-100: the loop over the dimensions dims of the variable name
CopyDimensions(source_dataset, target_dataset, name, dims) ==
    IF dims = <<>> THEN [err |-> "", target |-> target_dataset]
    ELSE LET dimension_name == Head(dims)
             present == dimension_name \in DOMAIN target_dataset.dimensions
         IN  IF present /\ ~DimensionAccepted(source_dataset.dimensions[dimension_name],
                                              target_dataset.dimensions[dimension_name])
             THEN [err |-> "Exception", target |-> target_dataset]
             ELSE LET t1 == IF present THEN target_dataset
                            ELSE copy_dimension(source_dataset, target_dataset, dimension_name)
                      r == IF /\ dimension_name \in DOMAIN source_dataset.variables
                              /\ dimension_name \notin DOMAIN t1.variables
                              /\ dimension_name # name
                           THEN copy_variable(source_dataset, t1, dimension_name, TRUE)
                           ELSE [err |-> "", target |-> t1]
                  IN  IF r.err # "" THEN r
                      ELSE CopyDimensions(source_dataset, r.target, name, Tail(dims))

\* lines 65-109, out_name left to default to name
copy_variable(source_dataset, target_dataset, name, overwrite) ==
    IF name \in DOMAIN target_dataset.variables /\ ~overwrite
    THEN [err |-> "Exception", target |-> target_dataset]
    ELSE LET t0 == [target_dataset EXCEPT !.variables = DictDel(@, name)]
             source_variable == source_dataset.variables[name]
             r == CopyDimensions(source_dataset, t0, name, source_variable.dimensions)
         IN  IF r.err # "" THEN r
             ELSE LET ok == Assignable(source_dataset, r.target, source_variable.dimensions)
                  IN  [err |-> IF ok THEN "" ELSE "ValueError",
                       target |-> [r.target EXCEPT !.variables =
                                      DictSet(@, name,
                                              [dimensions |-> source_variable.dimensions,
                                               written |-> ok])]]

\* the target dataset is changed in place: locals holds it after the call
CopyVariable ==
    /\ fpc = "call"
    /\ fn = "copy_variable"
    /\ LET r == copy_variable(args.source_dataset, args.target_dataset, args.name,
                              args.overwrite)
       IN  /\ locals' = [target_dataset |-> r.target]
           /\ IF r.err # ""
              THEN fpc' = "raised" /\ ferror' = r.err
              ELSE fpc' = "returned" /\ ferror' = ferror
    /\ UNCHANGED <<fn, args, ret>>
    /\ UNCHANGED <<evars, zvars, cvars>>

DimensionChoices(sizes) ==
    {[size |-> n, unlimited |-> u] : n \in sizes, u \in BOOLEAN}

\* the variable "v" on (y, x), with or without the coordinate variable "y"
SourceDatasets ==
    {[dimensions |-> [d \in {"y", "x"} |-> IF d = "y" THEN dy ELSE [size |-> 2, unlimited |-> FALSE]],
      variables |-> [n \in {"v"} \cup (IF coord THEN {"y"} ELSE {}) |->
                        [dimensions |-> IF n = "v" THEN <<"y", "x">> ELSE <<"y">>,
                         written |-> TRUE]]] :
        dy \in DimensionChoices({1, 2}), coord \in BOOLEAN}

\* targets holding none, one or both of the dimensions, and "v" or not
TargetDatasets ==
    {[dimensions |-> [d \in names |-> IF d = "y" THEN dy ELSE dx],
      variables |-> IF hasv /\ names = {"y", "x"}
                    THEN [n \in {"v"} |-> [dimensions |-> <<"y", "x">>, written |-> TRUE]]
                    ELSE EmptyDict] :
        names \in SUBSET {"y", "x"}, dy \in DimensionChoices({1, 2, 3}),
        dx \in DimensionChoices({2, 3}), hasv \in BOOLEAN}

InitCopyVariable ==
    \E s \in SourceDatasets, t \in TargetDatasets, o \in BOOLEAN :
        FnCall("copy_variable",
               [source_dataset |-> s, target_dataset |-> t, name |-> "v", overwrite |-> o])

Copied == fn = "copy_variable" /\ fpc # "call"

\* the dimensions of the variable that the target holds with another length
OtherLength ==
    {d \in SeqToSet(args.source_dataset.variables[args.name].dimensions) :
        /\ d \in DOMAIN args.target_dataset.dimensions
        /\ args.target_dataset.dimensions[d].size # args.source_dataset.dimensions[d].size}

\* of those, the ones that are unlimited on one side only
OtherLengthAndKind ==
    {d \in OtherLength :
        args.target_dataset.dimensions[d].unlimited
            # args.source_dataset.dimensions[d].unlimited}

NoVariableCreated ==
    DOMAIN locals.target_dataset.variables \subseteq DOMAIN args.target_dataset.variables

\* C25: copy_variable raises, and creates no variable in the target, whenever
\* a dimension of the source variable exists in the target with another length
C25_OtherLengthRaises ==
    (Copied /\ OtherLength # {}
            /\ (args.overwrite \/ args.name \notin DOMAIN args.target_dataset.variables)) =>
        (fpc = "raised" /\ NoVariableCreated)

\* what holds of the code: it raises, the variable not created, when the first
\* dimension that differs in length differs in being unlimited too
C25_OtherLengthAndKindRaises ==
    (Copied /\ OtherLength # {} /\ OtherLength = OtherLengthAndKind
            /\ (args.overwrite \/ args.name \notin DOMAIN args.target_dataset.variables)) =>
        (fpc = "raised" /\ ferror = "Exception"
            /\ args.name \notin DOMAIN locals.target_dataset.variables)

\* two fixed dimensions of lengths 2 and 3: the variable is created
C25_FixedLengths ==
    /\ Copied
    /\ args.source_dataset.dimensions["y"] = [size |-> 2, unlimited |-> FALSE]
    /\ "y" \in DOMAIN args.target_dataset.dimensions
    /\ args.target_dataset.dimensions["y"] = [size |-> 3, unlimited |-> FALSE]
    /\ "v" \notin DOMAIN args.target_dataset.variables
    /\ "v" \in DOMAIN locals.target_dataset.variables

\* ------------------------- the two categorical summaries on unit areas
\* both summaries of the same values: the outcome [err, results] of each
BothSummaries ==
    /\ fpc = "call"
    /\ fn = "summarize_count_by_category, summarize_areas_by_category"
    /\ FnFinish([err |-> "",
                 results |-> [counts |-> summarize_count_by_category(args.values),
                              areas |-> summarize_areas_by_category(args.values,
                                                                    args.areas)]])

\* numpy.ones(shape), as an ndarray or as a masked array without a mask
UnitAreas(s) ==
    {[kind |-> k, shape |-> s, data |-> [c \in 1..Size(s) |-> 1],
      hasmask |-> FALSE, mask |-> <<>>] : k \in {"ndarray", "ma"}}

\* masked arrays of categories, with a mask array and without one
InitBothSummaries ==
    \E s \in CategoryShapes :
        \E a \in {v \in CategoryArraysOf(s) : v.kind = "ma"}, w \in UnitAreas(s) :
            FnCall("summarize_count_by_category, summarize_areas_by_category",
                   [values |-> a, areas |-> w])

Summarized ==
    fn = "summarize_count_by_category, summarize_areas_by_category" /\ fpc = "returned"

\* both calls return, with the same keys and the same number under each key
SummariesAgree ==
    /\ ret.counts.err = ""
    /\ ret.areas.err = ""
    /\ DOMAIN ret.counts.results = DOMAIN ret.areas.results
    /\ \A c \in DOMAIN ret.counts.results :
          ret.areas.results[c] = Scalar(ret.counts.results[c])

\* C29: for every masked array of non-negative integers and unmasked areas of
\* its shape filled with 1, the two summaries have the same keys and the same
\* number under every key
C29_UnitAreasAgree == Summarized => SummariesAgree

\* what holds of the code: they agree when values holds a mask array; without
\* one the areas are summed and the count raises
C29_AgreeWithMaskArray ==
    Summarized =>
        IF args.values.hasmask THEN SummariesAgree
        ELSE /\ ret.counts.err = "ValueError"
             /\ ret.areas.err = ""
             /\ DOMAIN ret.areas.results = {args.values.data[k] : k \in DOMAIN args.values.data}

\* a masked pixel is left out of both summaries
C29_MaskedPixel ==
    /\ Summarized
    /\ args.values.data = <<1, 1, 2>>
    /\ args.values.hasmask /\ args.values.mask = <<TRUE, FALSE, FALSE>>
    /\ ret.counts.results = (1 :> 1) @@ (2 :> 1)
    /\ SummariesAgree

\* ------------------------------ clover/netcdf/utilities.py, extract_subset
\* the copy of the data (lines 281-296): slices is a sequence of [start, stop],
\* one per dimension; locals holds, for every target row of the first
\* dimension, the source rows written to it, and the source ranges read

MaxRows == 4         \* the first dimension of the target has 1..MaxRows rows

\* lines 258-260
TargetShape(slices) == [k \in DOMAIN slices |-> slices[k].stop - slices[k].start]

\* line 290: int(math.floor(float(target_shape[0] * blocksize) / float(target_size)))
Increment(target_shape, blocksize) ==
    (target_shape[1] * blocksize) \div Prod(target_shape)

\* mutant of NumIncrements: the quotient rounded down
NumIncrementsFloor(n, increment) == n \div increment

\* line 291: int(math.ceil(float(target_shape[0]) / increment))
NumIncrements(n, increment) == (n + increment - 1) \div increment

\* target_variable[lo:hi] = source_variable[first:last]: the rows written,
\* numbered from 0
WriteRows(written, lo, hi, first) ==
    [r \in DOMAIN written |->
        IF lo <= r - 1 /\ r - 1 < hi THEN Append(written[r], first + (r - 1 - lo))
        ELSE written[r]]

\* lines 281-291
ExtractStart ==
    /\ fpc = "call"
    /\ fn = "extract_subset"
    /\ LET target_shape == TargetShape(args.slices)
           target_size == Prod(target_shape)
           unwritten == [r \in 1..target_shape[1] |-> <<>>]
       IN  IF target_size < args.blocksize
           THEN /\ locals' = [increment |-> 0, num_increments |-> 0, i |-> 0,
                              written |-> WriteRows(unwritten, 0, target_shape[1],
                                                    args.slices[1].start),
                              reads |-> <<args.slices[1]>>]
                /\ fpc' = "returned" /\ ferror' = ferror
           ELSE IF Prod(Tail(target_shape)) >= args.blocksize
           THEN /\ locals' = locals
                /\ fpc' = "raised" /\ ferror' = "NotImplementedError"
           ELSE /\ locals' = [increment |-> Increment(target_shape, args.blocksize),
                              num_increments |->
                                  NumIncrements(target_shape[1],
                                                Increment(target_shape, args.blocksize)),
                              i |-> 0, written |-> unwritten, reads |-> <<>>]
                /\ fpc' = "blocks" /\ ferror' = ferror
    /\ UNCHANGED <<fn, args, ret>>
    /\ UNCHANGED <<evars, zvars, cvars>>

\* lines 293-296: one block
ExtractBlock ==
    /\ fpc = "blocks"
    /\ fn = "extract_subset"
    /\ locals.i < locals.num_increments
    /\ LET i == locals.i
           increment == locals.increment
           s0 == args.slices[1]
           n == TargetShape(args.slices)[1]
           first_slice == [start |-> s0.start + i * increment,
                           stop |-> Min2(s0.start + (i + 1) * increment, s0.stop)]
           lo == i * increment
           hi == Min2(i * increment + increment, n)
       IN  IF Max2(hi - lo, 0) # Max2(first_slice.stop - first_slice.start, 0)
           THEN /\ fpc' = "raised" /\ ferror' = "ValueError"
                /\ locals' = [locals EXCEPT !.reads = Append(@, first_slice)]
           ELSE /\ fpc' = fpc /\ ferror' = ferror
                /\ locals' = [locals EXCEPT
                                 !.i = i + 1,
                                 !.reads = Append(@, first_slice),
                                 !.written = WriteRows(@, lo, hi, first_slice.start)]
    /\ UNCHANGED <<fn, args, ret>>
    /\ UNCHANGED <<evars, zvars, cvars>>

\* line 293: the loop over range(0, num_increments) ends
ExtractDone ==
    /\ fpc = "blocks"
    /\ fn = "extract_subset"
    /\ locals.i >= locals.num_increments
    /\ fpc' = "returned"
    /\ UNCHANGED <<fn, args, ret, locals, ferror>>
    /\ UNCHANGED <<evars, zvars, cvars>>

\* a variable of one dimension or of two, the first slice starting at 0 or 1
SliceLists ==
    {<<[start |-> a, stop |-> a + n]>> : a \in {0, 1}, n \in 1..MaxRows}
    \cup
    {<<[start |-> a, stop |-> a + n], [start |-> 1, stop |-> 1 + m]>> :
        a \in {0, 1}, n \in 1..MaxRows, m \in 1..3}

InitExtractSubset ==
    \E sl \in SliceLists, b \in 1..(MaxRows + 2) :
        FnCall("extract_subset", [slices |-> sl, blocksize |-> b])

\* the copy goes by blocks
InBlocks ==
    /\ fn = "extract_subset"
    /\ fpc \in {"blocks", "returned"}
    /\ (fpc = "returned" => locals.num_increments # 0)

Rows == TargetShape(args.slices)[1]

\* C30: when extract_subset copies in blocks the increment is at least 1, the
\* blocks written so far cover the target rows below i * increment once each
\* and no other row, every block read is the block written shifted by
\* slices[0].start and ends at or before slices[0].stop, when the call
\* returns every target row has been written exactly once, and no block
\* raises
C30_BlocksPartition ==
    /\ (fn = "extract_subset" /\ fpc = "raised") => ferror = "NotImplementedError"
    /\ InBlocks =>
        /\ locals.increment >= 1
        /\ locals.num_increments >= 1
        /\ (locals.num_increments - 1) * locals.increment < Rows
        /\ \A r \in 1..Rows :
              locals.written[r] =
                  IF r - 1 < locals.i * locals.increment
                  THEN <<args.slices[1].start + r - 1>>
                  ELSE <<>>
        /\ \A k \in DOMAIN locals.reads :
              /\ locals.reads[k].start = args.slices[1].start + (k - 1) * locals.increment
              /\ locals.reads[k].start < locals.reads[k].stop
              /\ locals.reads[k].stop <= args.slices[1].stop
              /\ locals.reads[k].stop - locals.reads[k].start <= locals.increment
        /\ fpc = "returned" =>
              /\ locals.i = locals.num_increments
              /\ \A r \in 1..Rows : Len(locals.written[r]) = 1

\* three rows copied in two blocks of two and one
C30_Witness ==
    /\ fn = "extract_subset"
    /\ fpc = "returned"
    /\ args.slices = <<[start |-> 1, stop |-> 4], [start |-> 1, stop |-> 3]>>
    /\ args.blocksize = 5
    /\ locals.increment = 2
    /\ locals.num_increments = 2
    /\ locals.reads = <<[start |-> 1, stop |-> 3], [start |-> 3, stop |-> 4]>>
    /\ locals.written = << <<1>>, <<2>>, <<3>> >>

\* ------------------------------------------- calls of the library functions
InitFn ==
    /\ \/ InitCountByCategory
       \/ InitAreasByCategory
       \/ InitStatisticByInterval
       \/ InitBinTs
       \/ InitTimeseries
       \/ InitWeightedStatistics
       \/ InitAffine
       \/ InitFromBBox
       \/ InitRange
       \/ InitRenderClassified
       \/ InitCopyVariable
       \/ InitBothSummaries
       \/ InitExtractSubset
    /\ EngineIdle
    /\ ZonesIdle
    /\ CliIdle

FnNext ==
    \/ CountByCategory
    \/ AreasByCategory
    \/ StatisticByInterval
    \/ BinStart
    \/ BinStep
    \/ BinDone
    \/ TsStep
    \/ TsReturn
    \/ WeightedStatistics
    \/ Affine
    \/ FromBBox
    \/ IndicesForRange
    \/ SliceByRange
    \/ RenderClassified
    \/ CopyVariable
    \/ BothSummaries
    \/ ExtractStart
    \/ ExtractBlock
    \/ ExtractDone

SpecFn == InitFn /\ [][FnNext]_vars

====
